---- MODULE Spec2Model ----
(***************************************************************************)
(* better-man-viewer: the man-page parser (splitLines, parseSections,      *)
(* tokenizeLine, findMatches, buildFilterLines) and the search session of  *)
(* the viewer (App).                                                       *)
(*                                                                         *)
(* A JavaScript string is modelled as the sequence of its UTF-16 code      *)
(* units.  An ASCII code unit is the one-character string holding it; any  *)
(* other code unit is written "U+XXXX", and so is the backtick, "U+0060",  *)
(* which a TLA+ string cannot hold.                                        *)
(***************************************************************************)
EXTENDS Integers, Sequences, FiniteSets, TLC

VARIABLES
  pc,            \* which call has completed
  rawText,       \* the raw document text given to splitLines
  lines,         \* the line sequence (splitLines' result, everyone's input)
  prevLines,     \* the line sequence of the previous splitLines call
  sections,      \* parseSections' result
  line,          \* the line given to tokenizeLine
  segments,      \* tokenizeLine's result
  query,         \* the search query
  caseSensitive, \* findMatches' third parameter
  matches,       \* findMatches' result, or the match list given to buildFilterLines
  filterLines,   \* buildFilterLines' result
  searchMode,        \* App: "find" or "filter"
  activeMatchIndex,  \* App: index of the active match
  activeFilterIndex, \* App: index of the focused filter line
  pendingAnchorRef,  \* App: the line to scroll to, or NoAnchor for null
  loading,           \* App: the loading flag
  errorMessage,      \* App: "none" for null, or which message is shown
  pendingLoads,      \* the topics of the loadTopic calls awaiting loadManPage
  phase,             \* "idle", or "commit" while the effects of a render are due
  effectDeps,        \* the dependency values the effects last ran with
  scrollTarget,      \* the line of the last scrollToLine call, or NoAnchor
  lastEvent,         \* the handler that ran last
  visibleLines,      \* App: the rendered lines, each with its highlighted spans
  settings,          \* App: the viewer settings
  storedSettings,    \* the settings object kept in storage
  settingsInitialized, \* App: getSettings has settled
  documentTopic,     \* App: the topic of the document shown, <<>> without one
  lastRequested,     \* the argument of the latest loadTopic call, <<>> without one
  persistTimeout     \* App: a time-out of the persist effect is pending

viewerVars == <<searchMode, activeMatchIndex, activeFilterIndex,
                pendingAnchorRef, loading, errorMessage, pendingLoads, phase,
                effectDeps, scrollTarget, lastEvent, visibleLines, settings,
                storedSettings, settingsInitialized, documentTopic,
                lastRequested, persistTimeout>>

vars == <<pc, rawText, lines, prevLines, sections, line, segments,
          query, caseSensitive, matches, filterLines, viewerVars>>

\* pendingAnchorRef.current = null
NoAnchor == -1

\* A font scale, a double x, is written 1000 * h + u: h is x in hundredths,
\* rounded, and u is the distance of x from the double nearest to h / 100,
\* counted in units of 2^-53.  So 100000 is 1, 110000 is 1.1 and 120002 is
\* 1.2000000000000002; the order of the numbers is the order of the doubles.
MIN_FONT_SCALE == 75000

MAX_FONT_SCALE == 225000

\* The settings, without the fields the viewer only passes through
\* (minimapVisible, windowState).
DEFAULT_SETTINGS ==
  [theme |-> "dark", fontScale |-> 100000, lastSearchMode |-> "find"]

\* The values of App's state before anything is rendered, which the
\* specifications of the parser's functions leave alone.
ViewerUnmounted ==
  /\ searchMode = "find"
  /\ activeMatchIndex = 0
  /\ activeFilterIndex = 0
  /\ pendingAnchorRef = NoAnchor
  /\ loading = FALSE
  /\ errorMessage = "none"
  /\ pendingLoads = <<>>
  /\ phase = "idle"
  /\ effectDeps = <<>>
  /\ scrollTarget = NoAnchor
  /\ lastEvent = "none"
  /\ visibleLines = <<>>
  /\ settings = DEFAULT_SETTINGS
  /\ storedSettings = DEFAULT_SETTINGS
  /\ settingsInitialized = FALSE
  /\ documentTopic = <<>>
  /\ lastRequested = <<>>
  /\ persistTimeout = FALSE

-----------------------------------------------------------------------------
(* Bounds of the checked inputs.                                           *)

MaxRawLen == 5

MaxDocLines == 4

MaxTokenLen == 4

MaxSearchLines == 3

MaxQueryLen == 2

MaxMatches == 4

MaxLineIndex == 2

SmallCapLines == 60

CapLines == 10001

-----------------------------------------------------------------------------
(* Characters and the String built-ins the parser uses.                    *)

UpperSeq == <<"A", "B", "C", "D", "E", "F", "G", "H", "I", "J", "K", "L", "M",
              "N", "O", "P", "Q", "R", "S", "T", "U", "V", "W", "X", "Y", "Z">>

LowerSeq == <<"a", "b", "c", "d", "e", "f", "g", "h", "i", "j", "k", "l", "m",
              "n", "o", "p", "q", "r", "s", "t", "u", "v", "w", "x", "y", "z">>

UpperLetters == {UpperSeq[i] : i \in 1..26}

LowerLetters == {LowerSeq[i] : i \in 1..26}

Digits == {"0", "1", "2", "3", "4", "5", "6", "7", "8", "9"}

\* \w of a regular expression without the u flag: [A-Za-z0-9_]
WordChars == UpperLetters \cup LowerLetters \cup Digits \cup {"_"}

\* \s of a regular expression, which is also what String.prototype.trim
\* strips: the white space and line terminator code units.
WhiteSpace ==
  {" ", "\t", "\n", "\r", "\f", "U+000B", "U+00A0", "U+1680",
   "U+2000", "U+2001", "U+2002", "U+2003", "U+2004", "U+2005", "U+2006",
   "U+2007", "U+2008", "U+2009", "U+200A", "U+2028", "U+2029", "U+202F",
   "U+205F", "U+3000", "U+FEFF"}

\* The printable ASCII code units that are neither letters nor digits;
\* U+0060 is the grave accent.
AsciiMarks ==
  {"!", "\"", "#", "$", "%", "&", "'", "(", ")", "*", "+", ",", "-", ".", "/",
   ":", ";", "<", "=", ">", "?", "@", "[", "\\", "]", "^", "_", "U+0060",
   "{", "|", "}", "~"}

\* The code units outside ASCII that toLowerCase changes: E acute, capital I
\* with dot above and the Kelvin sign.
LowerCaseChanged == {"U+00C9", "U+0130", "U+212A"}

\* Their results (two code units for U+0130).
LowerCasePairs ==
  ("U+00C9" :> <<"U+00E9">>) @@ ("U+0130" :> <<"i", "U+0307">>)
    @@ ("U+212A" :> <<"k">>)

\* The code units outside ASCII that toUpperCase changes: sharp s, e acute,
\* dotless i, long s, n preceded by apostrophe and the ligature fi.
UpperCaseChanged ==
  {"U+00DF", "U+00E9", "U+0131", "U+017F", "U+0149", "U+FB01"}

\* Their results (two code units for U+00DF, U+0149 and U+FB01).
UpperCasePairs ==
  ("U+00DF" :> <<"S", "S">>) @@ ("U+00E9" :> <<"U+00C9">>)
    @@ ("U+0131" :> <<"I">>) @@ ("U+017F" :> <<"S">>)
    @@ ("U+0149" :> <<"U+02BC", "N">>) @@ ("U+FB01" :> <<"F", "I">>)

\* The code units of the texts the model covers: ASCII letters, digits and
\* marks, white space, and the code units of the two tables above with those
\* of their results.  The case conversions are defined on these and on no
\* other code unit.
CodeUnits ==
  UpperLetters \cup LowerLetters \cup Digits \cup AsciiMarks \cup WhiteSpace
    \cup LowerCaseChanged \cup UpperCaseChanged
    \cup {"U+0307", "U+02BC"}

\* String.prototype.toLowerCase on one code unit of CodeUnits.
lowerOfChar(c) ==
  IF c \in UpperLetters
  THEN <<LowerSeq[CHOOSE i \in 1..26 : UpperSeq[i] = c]>>
  ELSE IF c \in LowerCaseChanged THEN LowerCasePairs[c]
  ELSE IF c \in CodeUnits THEN <<c>>
  ELSE CHOOSE result \in {} : TRUE

\* String.prototype.toUpperCase on one code unit of CodeUnits.
upperOfChar(c) ==
  IF c \in LowerLetters
  THEN <<UpperSeq[CHOOSE i \in 1..26 : LowerSeq[i] = c]>>
  ELSE IF c \in UpperCaseChanged THEN UpperCasePairs[c]
  ELSE IF c \in CodeUnits THEN <<c>>
  ELSE CHOOSE result \in {} : TRUE

\* The concatenation of a sequence of strings, by halves.
RECURSIVE concat(_)
concat(parts) ==
  IF parts = <<>> THEN <<>>
  ELSE IF Len(parts) = 1 THEN parts[1]
  ELSE LET half == Len(parts) \div 2
       IN  concat(SubSeq(parts, 1, half)) \o concat(SubSeq(parts, half + 1, Len(parts)))

\* The i-th smallest member of a finite set of integers (i from 1).
nthOf(set, i) == CHOOSE x \in set : Cardinality({y \in set : y < x}) = i - 1

\* The code units of s at the indexes in keep, in order.
selectAt(s, keep) == [k \in 1..Cardinality(keep) |-> s[nthOf(keep, k)]]

toLowerCase(s) == concat([i \in 1..Len(s) |-> lowerOfChar(s[i])])

toUpperCase(s) == concat([i \in 1..Len(s) |-> upperOfChar(s[i])])

\* String.prototype.slice(from, to) with 0-based from, exclusive to, both within
\* 0..length.
slice(s, from, to) == SubSeq(s, from + 1, to)

\* The length of the longest prefix of s made of code units of set.
leadingRun(s, set) ==
  IF \A i \in 1..Len(s) : s[i] \in set
  THEN Len(s)
  ELSE (CHOOSE i \in 1..Len(s) :
          /\ s[i] \notin set
          /\ \A j \in 1..(i - 1) : s[j] \in set) - 1

\* The length of the longest suffix of s made of code units of set.
trailingRun(s, set) ==
  IF \A i \in 1..Len(s) : s[i] \in set
  THEN Len(s)
  ELSE Len(s) - (CHOOSE i \in 1..Len(s) :
                   /\ s[i] \notin set
                   /\ \A j \in (i + 1)..Len(s) : s[j] \in set)

\* The length of the leading white space of s: /^\s*/.
leadingSpace(s) == leadingRun(s, WhiteSpace)

\* String.prototype.trim.
trim(s) ==
  IF \A i \in 1..Len(s) : s[i] \in WhiteSpace
  THEN <<>>
  ELSE SubSeq(s, leadingSpace(s) + 1, Len(s) - trailingRun(s, WhiteSpace))

\* Whether needle occurs in s at the 0-based position at.
occursAt(s, needle, at) ==
  /\ at + Len(needle) <= Len(s)
  /\ \A k \in 1..Len(needle) : s[at + k] = needle[k]

\* String.prototype.indexOf(needle, from): the least position >= from where
\* needle occurs, or -1.
indexOf(s, needle, from) ==
  LET hits == {at \in from..Len(s) : occursAt(s, needle, at)}
  IN  IF hits = {} THEN -1 ELSE CHOOSE at \in hits : \A other \in hits : at <= other

\* Array.prototype.join: the elements with sep between them.
join(parts, sep) ==
  concat([i \in 1..Len(parts) |-> IF i = 1 THEN parts[i] ELSE sep \o parts[i]])

\* String.prototype.split on a one-code-unit separator: always at least one
\* element, the empty string splitting into one empty element.
split(s, sep) ==
  LET seps == {i \in 1..Len(s) : s[i] = sep}
      from(k) == IF k = 1 THEN 1 ELSE nthOf(seps, k - 1) + 1
      to(k) == IF k = Cardinality(seps) + 1 THEN Len(s) ELSE nthOf(seps, k) - 1
  IN  [k \in 1..(Cardinality(seps) + 1) |-> SubSeq(s, from(k), to(k))]

\* All strings over alphabet of length at most n.
RECURSIVE StringsUpTo(_, _)
StringsUpTo(alphabet, n) ==
  IF n = 0 THEN {<<>>}
  ELSE LET shorter == StringsUpTo(alphabet, n - 1)
       IN  shorter \cup {Append(s, c) : s \in shorter, c \in alphabet}

-----------------------------------------------------------------------------
(* splitLines                                                              *)

\* A faulty replaceCRLF: the step is left out, so that the "\r" of a "\r\n"
\* becomes a break of its own.
replaceCRLFLeftOut(s) == s

\* rawText.replace(/\r\n/g, "\n")
\* every "\r" that a "\n" follows is dropped.
replaceCRLF(s) ==
  selectAt(s, {i \in 1..Len(s) : ~(s[i] = "\r" /\ i < Len(s) /\ s[i + 1] = "\n")})

\* .replace(/\r/g, "\n")
replaceCR(s) == [i \in 1..Len(s) |-> IF s[i] = "\r" THEN "\n" ELSE s[i]]

\* A faulty splitLines: the trailing empty element is not popped.
splitLinesKeepLast(text) ==
  IF text = <<>> THEN <<>>
  ELSE split(replaceCR(replaceCRLF(text)), "\n")

splitLines(text) ==
  IF text = <<>> THEN <<>>
  ELSE LET all == split(replaceCR(replaceCRLF(text)), "\n")
       IN  IF Len(all) > 0 /\ all[Len(all)] = <<>>
           THEN SubSeq(all, 1, Len(all) - 1)
           ELSE all

-----------------------------------------------------------------------------
(* parseSections                                                           *)

KNOWN_SECTION_HEADINGS == {
  <<"N", "A", "M", "E">>,
  <<"S", "Y", "N", "O", "P", "S", "I", "S">>,
  <<"D", "E", "S", "C", "R", "I", "P", "T", "I", "O", "N">>,
  <<"O", "P", "T", "I", "O", "N", "S">>,
  <<"C", "O", "M", "M", "A", "N", "D", "S">>,
  <<"E", "X", "A", "M", "P", "L", "E", "S">>,
  <<"F", "I", "L", "E", "S">>,
  <<"E", "N", "V", "I", "R", "O", "N", "M", "E", "N", "T">>,
  <<"E", "X", "I", "T", " ", "S", "T", "A", "T", "U", "S">>,
  <<"R", "E", "T", "U", "R", "N", " ", "V", "A", "L", "U", "E">>,
  <<"S", "T", "A", "N", "D", "A", "R", "D", "S">>,
  <<"C", "O", "M", "P", "A", "T", "I", "B", "I", "L", "I", "T", "Y">>,
  <<"B", "U", "G", "S">>,
  <<"S", "E", "E", " ", "A", "L", "S", "O">>,
  <<"A", "U", "T", "H", "O", "R">>,
  <<"C", "O", "P", "Y", "R", "I", "G", "H", "T">>}

\* The decimal digits of a number >= 0, as template literals print it.
RECURSIVE decimal(_)
decimal(n) ==
  LET digit == <<"0", "1", "2", "3", "4", "5", "6", "7", "8", "9">>[(n % 10) + 1]
  IN  IF n < 10 THEN <<digit>> ELSE Append(decimal(n \div 10), digit)

isSlugChar(c) == c \in LowerLetters \cup Digits

\* .replace(/[^a-z0-9]+/g, "-"): every maximal run of other code units becomes
\* one hyphen.
replaceNonSlugRuns(s) ==
  LET hyphenated == [i \in 1..Len(s) |-> IF isSlugChar(s[i]) THEN s[i] ELSE "-"]
  IN  selectAt(hyphenated,
               {i \in 1..Len(s) : isSlugChar(s[i]) \/ i = 1 \/ isSlugChar(s[i - 1])})

\* .replace(/^-+/, "")
stripLeadingHyphens(s) == SubSeq(s, leadingRun(s, {"-"}) + 1, Len(s))

\* .replace(/-+$/, "")
stripTrailingHyphens(s) == SubSeq(s, 1, Len(s) - trailingRun(s, {"-"}))

SLUG_MAX_LENGTH == 50

slugify(value) ==
  LET stripped == stripTrailingHyphens(stripLeadingHyphens(
                    replaceNonSlugRuns(toLowerCase(value))))
  IN  slice(stripped, 0, IF Len(stripped) < SLUG_MAX_LENGTH
                         THEN Len(stripped) ELSE SLUG_MAX_LENGTH)

\* A faulty isTitleLine: the name is matched against lower-case letters.
isTitleLineLowerCaseName(value) ==
  LET nameChars == LowerLetters \cup Digits \cup {"_", ".", "+", "-"}
  IN  \E open \in 2..(Len(value) - 2) :
        /\ value[open] = "("
        /\ \A i \in 1..(open - 1) : value[i] \in nameChars
        /\ \A i \in (open + 1)..(Len(value) - 1) : value[i] \in Digits
        /\ value[Len(value)] = ")"

\* /^[A-Z0-9_.+-]+\(\d+\)$/
isTitleLine(value) ==
  LET nameChars == UpperLetters \cup Digits \cup {"_", ".", "+", "-"}
  IN  \E open \in 2..(Len(value) - 2) :
        /\ value[open] = "("
        /\ \A i \in 1..(open - 1) : value[i] \in nameChars
        /\ \A i \in (open + 1)..(Len(value) - 1) : value[i] \in Digits
        /\ value[Len(value)] = ")"

getIndentation(rawLine) == leadingSpace(rawLine)

\* lines[index] ?? "" with a 0-based index (also lines[index]?.trim() ?? "",
\* since "".trim() is "").
lineAt(ls, index) ==
  IF index >= 0 /\ index < Len(ls) THEN ls[index + 1] ELSE <<>>

TOP_LEVEL_MAX_LENGTH == 72

SUB_HEADING_MAX_LENGTH == 64

SUB_HEADING_MAX_WORDS == 6

\* /^[A-Z0-9][A-Z0-9\s\-_/(),.+]*$/
matchesUppercasePattern(s) ==
  LET first == UpperLetters \cup Digits
      rest == first \cup WhiteSpace \cup {"-", "_", "/", "(", ")", ",", ".", "+"}
  IN  /\ s # <<>>
      /\ s[1] \in first
      /\ \A i \in 2..Len(s) : s[i] \in rest

\* A blank line before counts, a blank line after does not.
isNextToBlankBefore(previous, next) == previous = <<>>

\* previous === "" || next === ""
isNextToBlank(previous, next) == previous = <<>> \/ next = <<>>

isLikelyTopLevelHeading(ls, index) ==
  LET rawLine == lineAt(ls, index)
      trimmed == trim(rawLine)
      indentation == getIndentation(rawLine)
      previous == trim(lineAt(ls, index - 1))
      next == trim(lineAt(ls, index + 1))
  IN  IF trimmed = <<>> \/ Len(trimmed) > TOP_LEVEL_MAX_LENGTH THEN FALSE
      ELSE IF isTitleLine(trimmed) THEN FALSE
      ELSE IF indentation > 1 THEN FALSE
      ELSE IF trimmed \in KNOWN_SECTION_HEADINGS /\ trimmed = toUpperCase(trimmed)
           THEN TRUE
      ELSE IF ~matchesUppercasePattern(trimmed) \/ trimmed # toUpperCase(trimmed)
           THEN FALSE
      ELSE isNextToBlank(previous, next)

\* line.split(/\s+/) of a trimmed, non-empty line: its maximal runs of
\* non-white-space code units.
splitWords(s) ==
  LET starts == {i \in 1..Len(s) :
                   s[i] \notin WhiteSpace /\ (i = 1 \/ s[i - 1] \in WhiteSpace)}
      ends == {i \in 1..Len(s) :
                 s[i] \notin WhiteSpace /\ (i = Len(s) \/ s[i + 1] \in WhiteSpace)}
  IN  [k \in 1..Cardinality(starts) |-> SubSeq(s, nthOf(starts, k), nthOf(ends, k))]

\* /^[a-zA-Z][\w-]*\(\d+\)$/
isCrossReference(s) ==
  \E open \in 2..(Len(s) - 2) :
    /\ s[open] = "("
    /\ s[1] \in UpperLetters \cup LowerLetters
    /\ \A i \in 2..(open - 1) : s[i] \in WordChars \cup {"-"}
    /\ \A i \in (open + 1)..(Len(s) - 1) : s[i] \in Digits
    /\ s[Len(s)] = ")"

\* /^[-*]/.test(line) || /^--?[a-zA-Z0-9]/.test(line), of a non-empty line: the
\* second test accepts only lines that start with a hyphen, as the first does.
startsWithMarker(trimmed) == trimmed[1] \in {"-", "*"}

\* next !== "" && nextIndentation > indentation
hasIndentedBody(ls, index, indentation) ==
  LET nextRawLine == lineAt(ls, index + 1)
      next == trim(nextRawLine)
      nextIndentation == getIndentation(nextRawLine)
  IN  next # <<>> /\ nextIndentation > indentation

isLikelySubHeading(ls, index) ==
  LET rawLine == lineAt(ls, index)
      trimmed == trim(rawLine)
      indentation == getIndentation(rawLine)
      isUppercase == trimmed = toUpperCase(trimmed)
      isLowercase == trimmed = toLowerCase(trimmed)
      words == splitWords(trimmed)
      startsUppercaseCount ==
        Cardinality({w \in 1..Len(words) :
                       words[w] # <<>> /\ words[w][1] \in UpperLetters})
      previous == trim(lineAt(ls, index - 1))
      next == trim(lineAt(ls, index + 1))
      hasWhitespaceBoundary == previous = <<>> \/ next = <<>>
  IN  IF trimmed = <<>> \/ Len(trimmed) > SUB_HEADING_MAX_LENGTH \/ isTitleLine(trimmed)
      THEN FALSE
      ELSE IF isLowercase THEN FALSE
      ELSE IF startsWithMarker(trimmed) THEN FALSE
      ELSE IF isCrossReference(trimmed) THEN FALSE
      ELSE IF trimmed[Len(trimmed)] \in {".", ":", ";", "!", "?"} THEN FALSE
      ELSE IF Len(words) = 0 \/ Len(words) > SUB_HEADING_MAX_WORDS THEN FALSE
      ELSE IF isUppercase /\ indentation <= 1 THEN FALSE
      ELSE IF ~isUppercase /\ startsUppercaseCount = 0 THEN FALSE
      ELSE IF ~isUppercase /\ indentation > 1 THEN FALSE
      \* startsUppercaseCount / words.length < 0.6
      ELSE IF ~isUppercase /\ startsUppercaseCount * 5 < 3 * Len(words) THEN FALSE
      ELSE IF ~isUppercase /\ ~(words[1] # <<>> /\ words[1][1] \in UpperLetters)
           THEN FALSE
      ELSE hasWhitespaceBoundary \/ hasIndentedBody(ls, index, indentation)

\* The first loop: every line index that is a heading, with its title and
\* level, in ascending index order.
RECURSIVE headingIndexesFrom(_, _)
headingIndexesFrom(ls, index) ==
  IF index >= Len(ls) THEN <<>>
  ELSE IF isLikelyTopLevelHeading(ls, index)
       THEN <<[index |-> index, title |-> trim(ls[index + 1]), level |-> 1]>>
              \o headingIndexesFrom(ls, index + 1)
  ELSE IF isLikelySubHeading(ls, index)
       THEN <<[index |-> index, title |-> trim(ls[index + 1]), level |-> 2]>>
              \o headingIndexesFrom(ls, index + 1)
  ELSE headingIndexesFrom(ls, index + 1)

\* The forEach that drops the level-2 headings seen before any level-1 heading.
RECURSIVE normalizeHeadings(_, _)
normalizeHeadings(headings, seenTopLevel) ==
  IF headings = <<>> THEN <<>>
  ELSE IF Head(headings).level = 1
       THEN <<Head(headings)>> \o normalizeHeadings(Tail(headings), TRUE)
  ELSE IF seenTopLevel
       THEN <<Head(headings)>> \o normalizeHeadings(Tail(headings), TRUE)
  ELSE normalizeHeadings(Tail(headings), FALSE)

\* The synthetic anchor returned when no heading remains.
documentAnchor(ls) ==
  [id |-> <<"d", "o", "c", "u", "m", "e", "n", "t">>,
   title |-> <<"D", "O", "C", "U", "M", "E", "N", "T">>,
   startLine |-> 0,
   endLine |-> IF Len(ls) - 1 > 0 THEN Len(ls) - 1 ELSE 0,
   level |-> 1]

\* slugify(title), or "section-" and position + 1 when the slug is empty
baseIdOf(title, position) ==
  IF slugify(title) # <<>> THEN slugify(title)
  ELSE <<"s", "e", "c", "t", "i", "o", "n", "-">> \o decimal(position + 1)

\* seen === 0 ? baseId : baseId + "-" + (seen + 1)
anchorId(baseId, seen) ==
  IF seen = 0 THEN baseId ELSE baseId \o <<"-">> \o decimal(seen + 1)

\* The map over normalizedHeadings: idCounts is the Map from base id to the
\* number of headings that had it so far; position is 0-based.
RECURSIVE mapAnchors(_, _, _, _)
mapAnchors(ls, headings, position, idCounts) ==
  IF position >= Len(headings) THEN <<>>
  ELSE LET heading == headings[position + 1]
           baseId == baseIdOf(heading.title, position)
           seen == IF baseId \in DOMAIN idCounts THEN idCounts[baseId] ELSE 0
           counted == [b \in DOMAIN idCounts \cup {baseId} |->
                         IF b = baseId THEN seen + 1 ELSE idCounts[b]]
       IN  <<[id |-> anchorId(baseId, seen),
              title |-> heading.title,
              startLine |-> heading.index,
              endLine |-> IF Len(ls) - 1 > heading.index
                          THEN Len(ls) - 1 ELSE heading.index,
              level |-> heading.level]>>
             \o mapAnchors(ls, headings, position + 1, counted)

\* A faulty parentPositionFrom: the first level-1 anchor, not the nearest.
parentPositionFirstTopLevel(anchors, parentPosition) ==
  IF parentPosition < 0 THEN -1
  ELSE IF \E p \in 0..parentPosition : anchors[p + 1].level = 1
       THEN CHOOSE p \in 0..parentPosition :
              /\ anchors[p + 1].level = 1
              /\ \A q \in 0..(p - 1) : anchors[q + 1].level # 1
       ELSE -1

\* The backward walk from position - 1 to the nearest level-1 anchor: its
\* 0-based position, or -1 when there is none.
RECURSIVE parentPositionFrom(_, _)
parentPositionFrom(anchors, parentPosition) ==
  IF parentPosition < 0 THEN -1
  ELSE IF anchors[parentPosition + 1].level = 1 THEN parentPosition
  ELSE parentPositionFrom(anchors, parentPosition - 1)

\* The forEach that sets parentId on the level-2 anchors.
assignParents(anchors) ==
  [i \in 1..Len(anchors) |->
     LET section == anchors[i]
         parentPosition == parentPositionFrom(anchors, i - 2)
     IN  IF section.level = 2 /\ parentPosition >= 0
         THEN [id |-> section.id, title |-> section.title,
               startLine |-> section.startLine, endLine |-> section.endLine,
               level |-> section.level,
               parentId |-> anchors[parentPosition + 1].id]
         ELSE section]

\* The forward walk stopping only at an anchor of a strictly lower level.
RECURSIVE endLineAtShallowerOnly(_, _, _, _)
endLineAtShallowerOnly(ls, anchors, level, nextPosition) ==
  IF nextPosition >= Len(anchors) THEN Len(ls) - 1
  ELSE IF anchors[nextPosition + 1].level < level
       THEN anchors[nextPosition + 1].startLine - 1
  ELSE endLineAtShallowerOnly(ls, anchors, level, nextPosition + 1)

\* A faulty endLineFrom: the next anchor ends the section whatever its level.
endLineAnyNext(ls, anchors, level, nextPosition) ==
  IF nextPosition >= Len(anchors) THEN Len(ls) - 1
  ELSE anchors[nextPosition + 1].startLine - 1

\* A faulty endLineFrom: lines.length for the last line's index.
RECURSIVE endLinePastLastLine(_, _, _, _)
endLinePastLastLine(ls, anchors, level, nextPosition) ==
  IF nextPosition >= Len(anchors) THEN Len(ls)
  ELSE IF anchors[nextPosition + 1].level <= level
       THEN anchors[nextPosition + 1].startLine - 1
  ELSE endLinePastLastLine(ls, anchors, level, nextPosition + 1)

\* The forward walk from position + 1 to the next anchor whose level is <= level:
\* the line before its start, or the last line when there is none.
RECURSIVE endLineFrom(_, _, _, _)
endLineFrom(ls, anchors, level, nextPosition) ==
  IF nextPosition >= Len(anchors) THEN Len(ls) - 1
  ELSE IF anchors[nextPosition + 1].level <= level
       THEN anchors[nextPosition + 1].startLine - 1
  ELSE endLineFrom(ls, anchors, level, nextPosition + 1)

\* The forEach that sets every anchor's endLine.
assignEndLines(ls, anchors) ==
  [i \in 1..Len(anchors) |->
     LET section == anchors[i]
         endLine == endLineFrom(ls, anchors, section.level, i)
     IN  [section EXCEPT !.endLine =
            IF section.startLine > endLine THEN section.startLine ELSE endLine]]

parseSections(ls) ==
  IF Len(ls) = 0 THEN <<>>
  ELSE LET headingIndexes == headingIndexesFrom(ls, 0)
           normalizedHeadings == normalizeHeadings(headingIndexes, FALSE)
       IN  IF headingIndexes = <<>> THEN <<documentAnchor(ls)>>
           ELSE IF normalizedHeadings = <<>> THEN <<documentAnchor(ls)>>
           ELSE assignEndLines(ls,
                  assignParents(mapAnchors(ls, normalizedHeadings, 0, <<>>)))

-----------------------------------------------------------------------------
(* tokenizeLine                                                            *)

\* s[at] with a 0-based position, or "" outside the string.
charAt(s, at) == IF at >= 0 /\ at < Len(s) THEN s[at + 1] ELSE ""

\* \b at the 0-based position at: exactly one of the code units before and
\* after it is a word character.
wordBoundary(s, at) ==
  (charAt(s, at - 1) \in WordChars) # (charAt(s, at) \in WordChars)

\* The 0-based position after the longest run of code units of set that starts
\* at position at.
runEnd(s, at, set) == at + leadingRun(SubSeq(s, at + 1, Len(s)), set)

AlphaNumerics == UpperLetters \cup LowerLetters \cup Digits

\* --?[a-zA-Z0-9][\w-]* at position at: the position after the match, or -1.
matchOption(s, at) ==
  LET dashes == IF charAt(s, at + 1) = "-" THEN 2 ELSE 1
  IN  IF charAt(s, at) = "-" /\ charAt(s, at + dashes) \in AlphaNumerics
      THEN runEnd(s, at + dashes + 1, WordChars \cup {"-"})
      ELSE -1

\* \b[A-Z][A-Z0-9_]{2,}\b at position at: the position after the match, or -1.
\* The run is greedy and no shorter run ends at a word boundary.
matchShouty(s, at) ==
  LET end == runEnd(s, at + 1, UpperLetters \cup Digits \cup {"_"})
  IN  IF /\ charAt(s, at) \in UpperLetters
         /\ wordBoundary(s, at)
         /\ end - (at + 1) >= 2
         /\ wordBoundary(s, end)
      THEN end
      ELSE -1

\* (?:~|\/)[\w./-]+ at position at: the position after the match, or -1.
matchPath(s, at) ==
  LET end == runEnd(s, at + 1, WordChars \cup {".", "/", "-"})
  IN  IF charAt(s, at) \in {"~", "/"} /\ end > at + 1 THEN end ELSE -1

\* A backtick, one or more code units that are no backtick, a backtick, at
\* position at: the position after the match, or -1.
matchLiteral(s, at) ==
  LET close == indexOf(s, <<"U+0060">>, at + 1)
  IN  IF charAt(s, at) = "U+0060" /\ close > at + 1 THEN close + 1 ELSE -1

\* \b[a-z]{2,}\(\d\)\b at position at: the position after the match, or -1.
\* After the closing parenthesis \b needs a word character.
matchCommand(s, at) ==
  LET nameEnd == runEnd(s, at, LowerLetters)
  IN  IF /\ wordBoundary(s, at)
         /\ nameEnd - at >= 2
         /\ charAt(s, nameEnd) = "("
         /\ charAt(s, nameEnd + 1) \in Digits
         /\ charAt(s, nameEnd + 2) = ")"
         /\ wordBoundary(s, nameEnd + 3)
      THEN nameEnd + 3
      ELSE -1

\* TOKEN_PATTERN at position at: the alternatives in their order; the position
\* after the match, or -1.
TOKEN_PATTERN(s, at) ==
  IF matchOption(s, at) # -1 THEN matchOption(s, at)
  ELSE IF matchShouty(s, at) # -1 THEN matchShouty(s, at)
  ELSE IF matchPath(s, at) # -1 THEN matchPath(s, at)
  ELSE IF matchLiteral(s, at) # -1 THEN matchLiteral(s, at)
  ELSE matchCommand(s, at)

\* The start of the leftmost match of TOKEN_PATTERN at or after from, or -1.
nextTokenStart(s, from) ==
  LET starts == {at \in from..(Len(s) - 1) : TOKEN_PATTERN(s, at) # -1}
  IN  IF starts = {} THEN -1 ELSE nthOf(starts, 1)

startsWith(s, prefix) == occursAt(s, prefix, 0)

\* /^[A-Z][A-Z0-9_]{2,}$/
isEnvName(token) ==
  /\ Len(token) >= 3
  /\ token[1] \in UpperLetters
  /\ \A i \in 2..Len(token) : token[i] \in UpperLetters \cup Digits \cup {"_"}

\* /^[a-z]{2,}\(\d\)$/
isCommandReference(token) ==
  /\ Len(token) >= 5
  /\ \A i \in 1..(Len(token) - 3) : token[i] \in LowerLetters
  /\ token[Len(token) - 2] = "("
  /\ token[Len(token) - 1] \in Digits
  /\ token[Len(token)] = ")"

\* A faulty classifyToken: the path test is startsWith("~") for startsWith("~/").
classifyTokenTildeIsPath(token) ==
  IF startsWith(token, <<"-", "-">>) \/ startsWith(token, <<"-">>) THEN "option"
  ELSE IF startsWith(token, <<"/">>) \/ startsWith(token, <<"~">>) THEN "path"
  ELSE IF isEnvName(token) THEN "env"
  ELSE IF startsWith(token, <<"U+0060">>) /\ token[Len(token)] = "U+0060" THEN "literal"
  ELSE IF isCommandReference(token) THEN "command"
  ELSE "plain"

classifyToken(token) ==
  IF startsWith(token, <<"-", "-">>) \/ startsWith(token, <<"-">>) THEN "option"
  ELSE IF startsWith(token, <<"/">>) \/ startsWith(token, <<"~", "/">>) THEN "path"
  ELSE IF isEnvName(token) THEN "env"
  ELSE IF startsWith(token, <<"U+0060">>) /\ token[Len(token)] = "U+0060" THEN "literal"
  ELSE IF isCommandReference(token) THEN "command"
  ELSE "plain"

HEADING_LINE_MAX_LENGTH == 72

\* A faulty plainBefore: the slice starts one code unit late.
plainBeforeSkipsOne(s, lastIndex, start) ==
  IF start > lastIndex
  THEN <<[text |-> slice(s, lastIndex + 1, start), kind |-> "plain"]>>
  ELSE <<>>

\* The plain segment pushed before a token that starts after lastIndex.
plainBefore(s, lastIndex, start) ==
  IF start > lastIndex
  THEN <<[text |-> slice(s, lastIndex, start), kind |-> "plain"]>>
  ELSE <<>>

\* The plain segment pushed after the last token.
plainAfter(s, lastIndex) ==
  IF lastIndex < Len(s)
  THEN <<[text |-> slice(s, lastIndex, Len(s)), kind |-> "plain"]>>
  ELSE <<>>

\* The loop over line.matchAll(TOKEN_PATTERN) and the push that follows it.
RECURSIVE segmentsFrom(_, _)
segmentsFrom(s, lastIndex) ==
  LET start == nextTokenStart(s, lastIndex)
      end == TOKEN_PATTERN(s, start)
      token == slice(s, start, end)
  IN  IF start = -1 THEN plainAfter(s, lastIndex)
      ELSE plainBefore(s, lastIndex, start)
             \o <<[text |-> token, kind |-> classifyToken(token)]>>
             \o segmentsFrom(s, end)

\* Token classification first: the shortcut only for a line without tokens.
tokenizeLineTokensFirst(s) ==
  LET trimmed == trim(s)
      found == segmentsFrom(s, 0)
  IN  IF \E i \in 1..Len(found) : found[i].kind # "plain" THEN found
      ELSE IF /\ trimmed # <<>>
              /\ Len(trimmed) <= HEADING_LINE_MAX_LENGTH
              /\ trimmed = toUpperCase(trimmed)
      THEN <<[text |-> s, kind |-> "heading"]>>
      ELSE IF Len(found) = 0 THEN <<[text |-> s, kind |-> "plain"]>>
      ELSE found

tokenizeLine(s) ==
  LET trimmed == trim(s)
      found == segmentsFrom(s, 0)
  IN  IF /\ trimmed # <<>>
         /\ Len(trimmed) <= HEADING_LINE_MAX_LENGTH
         /\ trimmed = toUpperCase(trimmed)
      THEN <<[text |-> s, kind |-> "heading"]>>
      ELSE IF Len(found) = 0 THEN <<[text |-> s, kind |-> "plain"]>>
      ELSE found

-----------------------------------------------------------------------------
(* findMatches and buildFilterLines                                        *)

\* No lower-casing under either case policy.
normalizeForSearchKeepsCase(value, sensitive) == value

normalizeForSearch(value, sensitive) ==
  IF sensitive THEN value ELSE toLowerCase(value)

MATCH_CAP == 20000

\* line.trim() || "(blank line)"
previewOf(rawLine) ==
  IF trim(rawLine) # <<>> THEN trim(rawLine)
  ELSE <<"(", "b", "l", "a", "n", "k", " ", "l", "i", "n", "e", ")">>

\* A faulty pushMatch: the match is put in front (unshift for push).
pushMatchInFront(found, match) == <<match>> \o found

\* matches.push(match)
pushMatch(found, match) == Append(found, match)

\* The while loop over one line, entered with the scan position offset.  scan is
\* [matches, returned]: the matches pushed so far and whether the function has
\* returned from inside the loop.
RECURSIVE scanLine(_, _, _, _, _, _, _)
scanLine(scan, lineIndex, rawLine, haystack, needle, needleRaw, offset) ==
  LET nextIndex == indexOf(haystack, needle, offset)
      pushed == pushMatch(scan.matches,
                          [lineIndex |-> lineIndex,
                           start |-> nextIndex,
                           end |-> nextIndex + Len(needleRaw),
                           preview |-> previewOf(rawLine)])
      advanced == nextIndex + (IF Len(needleRaw) > 1 THEN Len(needleRaw) ELSE 1)
  IN  IF ~(offset < Len(haystack)) THEN scan
      ELSE IF nextIndex = -1 THEN scan
      ELSE IF Len(pushed) > MATCH_CAP THEN [matches |-> pushed, returned |-> TRUE]
      ELSE scanLine([matches |-> pushed, returned |-> FALSE],
                    lineIndex, rawLine, haystack, needle, needleRaw, advanced)

\* The for loop over the line indexes from..(to - 1), in ascending order; it
\* stops once the function has returned.  The range is walked by halves, the
\* first half before the second.
RECURSIVE scanLines(_, _, _, _, _, _, _)
scanLines(scan, ls, needle, needleRaw, sensitive, from, to) ==
  IF scan.returned \/ from >= to THEN scan
  ELSE IF to - from = 1
       THEN scanLine(scan, from, ls[from + 1],
                     normalizeForSearch(ls[from + 1], sensitive),
                     needle, needleRaw, 0)
  ELSE LET middle == from + ((to - from) \div 2)
       IN  scanLines(scanLines(scan, ls, needle, needleRaw, sensitive, from, middle),
                     ls, needle, needleRaw, sensitive, middle, to)

\* A faulty needleRawOf: the query is used untrimmed.
needleRawUntrimmed(q) == q

\* const needleRaw = query.trim()
needleRawOf(q) == trim(q)

findMatches(ls, q, sensitive) ==
  LET needleRaw == needleRawOf(q)
      needle == normalizeForSearch(needleRaw, sensitive)
  IN  IF needleRaw = <<>> THEN <<>>
      ELSE scanLines([matches |-> <<>>, returned |-> FALSE],
                     ls, needle, needleRaw, sensitive, 0, Len(ls)).matches

\* counts.set(match.lineIndex, (counts.get(match.lineIndex) ?? 0) + 1) on the Map
\* counts, kept as its entries [key, value] in insertion order.
countMatch(counts, match) ==
  IF \E e \in 1..Len(counts) : counts[e].key = match.lineIndex
  THEN [e \in 1..Len(counts) |->
          IF counts[e].key = match.lineIndex
          THEN [key |-> counts[e].key, value |-> counts[e].value + 1]
          ELSE counts[e]]
  ELSE Append(counts, [key |-> match.lineIndex, value |-> 1])

\* matches.forEach over the positions from..(to - 1) (0-based), in order, walked
\* by halves.
RECURSIVE countMatches(_, _, _, _)
countMatches(counts, found, from, to) ==
  IF from >= to THEN counts
  ELSE IF to - from = 1 THEN countMatch(counts, found[from + 1])
  ELSE LET middle == from + ((to - from) \div 2)
       IN  countMatches(countMatches(counts, found, from, middle), found, middle, to)

\* A faulty sortEntries: the entries stay in insertion order.
sortEntriesKeepsOrder(entries) == entries

\* [...counts.entries()].sort((a, b) => a[0] - b[0]): the entries by ascending
\* key (the keys of a Map are distinct).
sortEntries(entries) ==
  LET keys == {entries[e].key : e \in 1..Len(entries)}
  IN  [k \in 1..Len(entries) |->
         entries[CHOOSE e \in 1..Len(entries) : entries[e].key = nthOf(keys, k)]]

\* lines[lineIndex] || ""
lineTextOr(ls, lineIndex) == lineAt(ls, lineIndex)

buildFilterLines(ls, found) ==
  LET sorted == sortEntries(countMatches(<<>>, found, 0, Len(found)))
  IN  [k \in 1..Len(sorted) |->
         [lineIndex |-> sorted[k].key,
          text |-> lineTextOr(ls, sorted[k].key),
          matchCount |-> sorted[k].value]]

-----------------------------------------------------------------------------
(* Specification SpecSplit: splitLines on every raw text of at most        *)
(* MaxRawLen code units over a letter, a blank, "\r" and "\n", and        *)
(* then the round trip through join("\n").                                 *)

RawAlphabet == {"a", " ", "\n", "\r"}

RawTexts == StringsUpTo(RawAlphabet, MaxRawLen)

InitSplit ==
  /\ pc = "start"
  /\ rawText \in RawTexts
  /\ lines = <<>>
  /\ prevLines = <<>>
  /\ sections = <<>>
  /\ line = <<>>
  /\ segments = <<>>
  /\ query = <<>>
  /\ caseSensitive = FALSE
  /\ matches = <<>>
  /\ filterLines = <<>>
  /\ ViewerUnmounted

\* lines = splitLines(rawText)
SplitLines ==
  /\ pc \in {"start", "joined"}
  /\ lines' = splitLines(rawText)
  /\ pc' = IF pc = "start" THEN "split" ELSE "resplit"
  /\ UNCHANGED <<rawText, prevLines, sections, line, segments,
                 query, caseSensitive, matches, filterLines>>
  /\ UNCHANGED viewerVars

\* rawText = lines.join("\n")
Rejoin ==
  /\ pc = "split"
  /\ rawText' = join(lines, <<"\n">>)
  /\ prevLines' = lines
  /\ pc' = "joined"
  /\ UNCHANGED <<lines, sections, line, segments,
                 query, caseSensitive, matches, filterLines>>
  /\ UNCHANGED viewerVars

NextSplit == SplitLines \/ Rejoin

SpecSplit == InitSplit /\ [][NextSplit]_vars

endsInBlankLine(ls) == ls # <<>> /\ ls[Len(ls)] = <<>>

\* C5 as stated: re-joining the result of splitLines with "\n" and splitting
\* again gives the same line sequence, for every raw text.
C5_RoundTripIdentity == pc = "resplit" => lines = prevLines

\* C5 amended: the round trip gives the same line sequence unless that sequence
\* ends in an empty line, and then it gives the sequence without its last line;
\* a last line of blanks only is kept.
C5_RoundTripDropsOneBlank ==
  pc = "resplit" =>
    lines = IF endsInBlankLine(prevLines)
            THEN SubSeq(prevLines, 1, Len(prevLines) - 1)
            ELSE prevLines

\* A round trip of a text that ended in two empty lines, and one of a text
\* whose last line is not empty.
C5_Witness ==
  /\ pc = "resplit"
  /\ Len(prevLines) = 3
  /\ prevLines[1] = <<"a">>
  /\ prevLines[2] = <<>>
  /\ prevLines[3] = <<>>
  /\ lines = <<<<"a">>, <<>>>>

\* The positions of rawText where a line break starts: a "\r", or a "\n" that
\* is not the second half of a "\r\n".
breakStarts ==
  {i \in 1..Len(rawText) :
     \/ rawText[i] = "\r"
     \/ rawText[i] = "\n" /\ (i = 1 \/ rawText[i - 1] # "\r")}

\* The last position of the break that starts at i.
breakEnd(i) ==
  IF rawText[i] = "\r" /\ i < Len(rawText) /\ rawText[i + 1] = "\n"
  THEN i + 1 ELSE i

\* The text between the breaks: before the first, between consecutive ones,
\* and after the last.
piecesBetweenBreaks ==
  LET n == Cardinality(breakStarts)
      from(k) == IF k = 1 THEN 1 ELSE breakEnd(nthOf(breakStarts, k - 1)) + 1
      to(k) == IF k = n + 1 THEN Len(rawText) ELSE nthOf(breakStarts, k) - 1
  IN  [k \in 1..(n + 1) |-> SubSeq(rawText, from(k), to(k))]

\* The line sequence C16 describes: no line for the empty text; otherwise the
\* pieces between the breaks, without the last piece when it is empty (the text
\* ends in a terminator).
expectedLines ==
  LET pieces == piecesBetweenBreaks
  IN  IF rawText = <<>> THEN <<>>
      ELSE IF pieces[Len(pieces)] = <<>> THEN SubSeq(pieces, 1, Len(pieces) - 1)
      ELSE pieces

\* C16: splitLines counts each of "\r\n", "\r" and "\n" as one break, drops
\* exactly one trailing empty element after a final terminator, keeps every
\* other blank line and a non-terminated last line, and gives no line for the
\* empty text.
C16_EveryLineEndingIsOneBreak ==
  pc = "split" => lines = expectedLines

\* A text with a "\r\n", a lone "\r" and a lone "\n", the last one final.
C16_Witness ==
  /\ pc = "split"
  /\ rawText = <<"\r", "\n", "\r", "a", "\n">>
  /\ lines = << <<>>, <<>>, <<"a">> >>

-----------------------------------------------------------------------------
(* Specification SpecSections: parseSections on every document of at most  *)
(* MaxDocLines lines drawn from SampleLines.                               *)

SampleLines == {
  <<>>,                                  \* a blank line
  <<"N", "A", "M", "E">>,                \* a well-known section name
  <<"A">>,                               \* an all-caps line at column 0
  <<"A", "-", "2">>,                     \* an all-caps line whose slug is "a-2"
  <<" ", " ", "A">>,                     \* an all-caps line indented 2 columns
  <<" ", " ", " ", "b">>,                \* body text indented 3 columns
  <<"A", "b">>,                          \* a title-case line at column 0
  <<"L", "S", "(", "1", ")">>,           \* a manual-page title marker
  <<" ", " ", "L", "S", "(", "1", ")">>, \* a title marker indented 2 columns
  <<"-", "a">>,                          \* an option line
  <<" ", " ", "*", " ", "A">>,           \* an indented bullet line
  <<"\t", "A">>,                         \* an all-caps line after one tab
  <<"\t", "A", "b">>,                    \* a title-case line after one tab
  <<" ", " ", "A", "b">>}                \* a title-case line indented 2 columns

\* The manual pages of the tests, as raw text.
SAMPLE == <<
  "L", "S", "(", "1", ")", "\n", "\n", "N", "A", "M", "E", "\n", "\n", "l",
  "s", " ", "-", " ", "l", "i", "s", "t", " ", "d", "i", "r", "e", "c", "t",
  "o", "r", "y", " ", "c", "o", "n", "t", "e", "n", "t", "s", "\n", "\n",
  "S", "Y", "N", "O", "P", "S", "I", "S", "\n", "\n", "l", "s", " ", "[",
  "O", "P", "T", "I", "O", "N", "]", ".", ".", ".", " ", "[", "F", "I", "L",
  "E", "]", ".", ".", ".", "\n", "\n", "O", "P", "T", "I", "O", "N", "S",
  "\n", "\n", "-", "a", ",", " ", "-", "-", "a", "l", "l", " ", "s", "h",
  "o", "w", " ", "h", "i", "d", "d", "e", "n", " ", "f", "i", "l", "e", "s",
  "\n", "P", "A", "T", "H", " ", "a", "n", "d", " ", "M", "A", "N", "P", "A",
  "G", "E", "R", " ", "m", "a", "y", " ", "a", "f", "f", "e", "c", "t", " ",
  "o", "u", "t", "p", "u", "t", "\n">>

SAMPLE_WITH_SUBSECTIONS == <<
  "F", "Z", "F", "(", "1", ")", "\n", "\n", "N", "A", "M", "E", "\n", "\n",
  "f", "z", "f", " ", "-", " ", "c", "o", "m", "m", "a", "n", "d", "-", "l",
  "i", "n", "e", " ", "f", "u", "z", "z", "y", " ", "f", "i", "n", "d", "e",
  "r", "\n", "\n", "O", "P", "T", "I", "O", "N", "S", "\n", "\n", "S", "e",
  "a", "r", "c", "h", "\n", "\n", "S", "e", "a", "r", "c", "h", " ", "c",
  "o", "n", "t", "r", "o", "l", "s", " ", "a", "n", "d", " ", "m", "a", "t",
  "c", "h", "i", "n", "g", " ", "b", "e", "h", "a", "v", "i", "o", "r", ".",
  "\n", "\n", "P", "r", "e", "v", "i", "e", "w", "\n", "\n", "P", "r", "e",
  "v", "i", "e", "w", " ", "w", "i", "n", "d", "o", "w", " ", "o", "p", "t",
  "i", "o", "n", "s", ".", "\n", "\n", "A", "U", "T", "H", "O", "R", "\n",
  "\n", "M", "a", "i", "n", "t", "a", "i", "n", "e", "r", "s", ".", "\n">>

SAMPLE_WITH_INDENTED_SUBSECTIONS == <<
  "F", "Z", "F", "(", "1", ")", "\n", "\n", "N", "A", "M", "E", "\n", "\n",
  "f", "z", "f", " ", "-", " ", "a", " ", "c", "o", "m", "m", "a", "n", "d",
  "-", "l", "i", "n", "e", " ", "f", "u", "z", "z", "y", " ", "f", "i", "n",
  "d", "e", "r", "\n", "\n", "O", "P", "T", "I", "O", "N", "S", "\n", " ",
  " ", " ", "N", "O", "T", "E", "\n", " ", " ", " ", " ", " ", " ", " ", "M",
  "o", "s", "t", " ", "l", "o", "n", "g", " ", "o", "p", "t", "i", "o", "n",
  "s", " ", "h", "a", "v", "e", " ", "t", "h", "e", " ", "o", "p", "p", "o",
  "s", "i", "t", "e", " ", "v", "e", "r", "s", "i", "o", "n", " ", "w", "i",
  "t", "h", " ", "-", "-", "n", "o", "-", " ", "p", "r", "e", "f", "i", "x",
  ".", "\n", "\n", " ", " ", " ", "S", "E", "A", "R", "C", "H", "\n", " ",
  " ", " ", " ", " ", " ", " ", "-", "x", ",", " ", "-", "-", "e", "x", "t",
  "e", "n", "d", "e", "d", "\n", "\n", " ", " ", " ", "I", "N", "P", "U",
  "T", "/", "O", "U", "T", "P", "U", "T", "\n", " ", " ", " ", " ", " ", " ",
  " ", "-", "-", "r", "e", "a", "d", "0", "\n", "\n", "A", "U", "T", "H",
  "O", "R", "\n", "\n", "M", "a", "i", "n", "t", "a", "i", "n", "e", "r",
  "s", ".", "\n">>

SAMPLE_WITH_OPTION_PROSE == <<
  "L", "S", "(", "1", ")", "\n", "\n", "O", "P", "T", "I", "O", "N", "S",
  "\n", "\n", " ", " ", " ", "-", "b", ",", " ", "-", "-", "e", "s", "c",
  "a", "p", "e", "\n", " ", " ", " ", " ", " ", " ", " ", " ", " ", " ", "p",
  "r", "i", "n", "t", " ", "C", "-", "s", "t", "y", "l", "e", " ", "e", "s",
  "c", "a", "p", "e", "s", " ", "f", "o", "r", " ", "n", "o", "n", "g", "r",
  "a", "p", "h", "i", "c", " ", "c", "h", "a", "r", "a", "c", "t", "e", "r",
  "s", "\n", "\n", " ", " ", " ", "-", "q", ",", " ", "-", "-", "h", "i",
  "d", "e", "-", "c", "o", "n", "t", "r", "o", "l", "-", "c", "h", "a", "r",
  "s", "\n", " ", " ", " ", " ", " ", " ", " ", " ", " ", " ", "p", "r", "i",
  "n", "t", " ", "?", " ", "i", "n", "s", "t", "e", "a", "d", " ", "o", "f",
  " ", "n", "o", "n", "g", "r", "a", "p", "h", "i", "c", " ", "c", "h", "a",
  "r", "a", "c", "t", "e", "r", "s", "\n">>

SamplePages ==
  {SAMPLE, SAMPLE_WITH_SUBSECTIONS, SAMPLE_WITH_INDENTED_SUBSECTIONS,
   SAMPLE_WITH_OPTION_PROSE}

\* An all-uppercase line of n code units.
capsLine(n) == [i \in 1..n |-> "A"]

\* Documents at the length limit of a top-level heading: an all-uppercase
\* line of exactly the limit or one more, followed by a blank line.
LengthLimitDocuments ==
  {<<capsLine(n), <<>>, <<"A", "b">> >> :
     n \in {TOP_LEVEL_MAX_LENGTH, TOP_LEVEL_MAX_LENGTH + 1}}

InitSections ==
  /\ pc = "start"
  /\ \/ /\ rawText = <<>>
        /\ \E n \in 0..MaxDocLines : lines \in [1..n -> SampleLines]
     \/ /\ rawText = <<>>
        /\ lines \in LengthLimitDocuments
     \/ /\ rawText \in SamplePages
        /\ lines = splitLines(rawText)
  /\ prevLines = <<>>
  /\ sections = <<>>
  /\ line = <<>>
  /\ segments = <<>>
  /\ query = <<>>
  /\ caseSensitive = FALSE
  /\ matches = <<>>
  /\ filterLines = <<>>
  /\ ViewerUnmounted

\* sections = parseSections(lines)
ParseSections ==
  /\ pc = "start"
  /\ sections' = parseSections(lines)
  /\ pc' = "parsed"
  /\ UNCHANGED <<rawText, lines, prevLines, line, segments,
                 query, caseSensitive, matches, filterLines>>
  /\ UNCHANGED viewerVars

NextSections == ParseSections

SpecSections == InitSections /\ [][NextSections]_vars

\* The 0-based line indexes where a line-level predicate holds.
topLevelIndexes == {i \in 0..(Len(lines) - 1) : isLikelyTopLevelHeading(lines, i)}

subLevelIndexes ==
  {i \in 0..(Len(lines) - 1) :
     ~isLikelyTopLevelHeading(lines, i) /\ isLikelySubHeading(lines, i)}

\* C6: anchors are in strictly ascending startLine order and every anchor has
\* 0 <= startLine <= endLine <= length(lines) - 1.
C6_AnchorsAscendingInRange ==
  pc = "parsed" =>
    /\ \A i \in 1..Len(sections) :
         /\ 0 <= sections[i].startLine
         /\ sections[i].startLine <= sections[i].endLine
         /\ sections[i].endLine <= Len(lines) - 1
    /\ \A i \in 1..(Len(sections) - 1) :
         sections[i].startLine < sections[i + 1].startLine

\* A result with a level-1 anchor, a level-2 anchor under it and a second
\* level-1 anchor.
C6_Witness ==
  /\ pc = "parsed"
  /\ topLevelIndexes # {}
  /\ Len(sections) = 3
  /\ sections[1].level = 1
  /\ sections[2].level = 2
  /\ sections[3].level = 1

\* C7: every level-2 anchor's parentId is the id of the nearest level-1 anchor
\* before it, a level-1 anchor has no parentId, and a sub-level candidate line
\* before the first top-level heading line is not an anchor.
C7_ParentIsNearestTopLevel ==
  pc = "parsed" =>
    /\ \A i \in 1..Len(sections) :
         IF sections[i].level = 2
         THEN /\ "parentId" \in DOMAIN sections[i]
              /\ \E p \in 1..(i - 1) :
                   /\ sections[p].level = 1
                   /\ \A q \in (p + 1)..(i - 1) : sections[q].level # 1
                   /\ sections[i].parentId = sections[p].id
         ELSE "parentId" \notin DOMAIN sections[i]
    /\ \A index \in subLevelIndexes :
         (\A top \in topLevelIndexes : top > index) =>
           ~\E i \in 1..Len(sections) :
              sections[i].startLine = index /\ sections[i].level = 2

\* A result where a level-2 anchor follows two level-1 anchors, and a sub-level
\* candidate stood before the first top-level heading.
C7_Witness ==
  /\ pc = "parsed"
  /\ \E index \in subLevelIndexes : \A top \in topLevelIndexes : top > index
  /\ Len(sections) = 3
  /\ sections[1].level = 1
  /\ sections[2].level = 1
  /\ sections[3].level = 2
  /\ sections[3].parentId = sections[2].id
  /\ sections[1].id # sections[2].id

\* C8: no two anchors of one result have the same id.
C8_IdsUnique ==
  pc = "parsed" =>
    \A i, j \in 1..Len(sections) : i # j => sections[i].id # sections[j].id

\* C9: when no top-level heading is detected (no heading at all, only sub-level
\* candidates, or no line at all) the result is exactly the one whole-document
\* anchor.
C9_FallbackIsOneDocumentAnchor ==
  (pc = "parsed" /\ topLevelIndexes = {}) =>
    /\ Len(sections) = 1
    /\ sections[1].id = <<"d", "o", "c", "u", "m", "e", "n", "t">>
    /\ sections[1].title = <<"D", "O", "C", "U", "M", "E", "N", "T">>
    /\ sections[1].level = 1
    /\ sections[1].startLine = 0
    /\ Len(lines) > 0 => sections[1].endLine = Len(lines) - 1

\* Two level-2 anchors are siblings when no level-1 anchor stands between them.
sameParent(i, j) ==
  /\ sections[i].level = 2
  /\ sections[j].level = 2
  /\ \A k \in i..j : sections[k].level = 2

\* Anchor j is the next sibling of anchor i.
nextSibling(i, j) ==
  /\ i < j
  /\ \/ sections[i].level = 1 /\ sections[j].level = 1
     \/ sameParent(i, j)
  /\ \A k \in (i + 1)..(j - 1) : sections[k].level > sections[i].level

\* C10: sibling ranges are disjoint and contiguous (a sibling's endLine + 1 is
\* the next sibling's startLine) and the last level-1 anchor ends at the last
\* line of the document.
C10_SiblingsContiguous ==
  (pc = "parsed" /\ topLevelIndexes # {}) =>
    /\ \A i, j \in 1..Len(sections) :
         nextSibling(i, j) => sections[i].endLine + 1 = sections[j].startLine
    /\ \A i, j \in 1..Len(sections) :
         (i < j /\ (sameParent(i, j)
                      \/ (sections[i].level = 1 /\ sections[j].level = 1)))
           => sections[i].endLine < sections[j].startLine
    /\ \A i \in 1..Len(sections) :
         (sections[i].level = 1
            /\ \A k \in (i + 1)..Len(sections) : sections[k].level # 1)
           => sections[i].endLine = Len(lines) - 1

\* A result with a level-1 anchor and two level-2 anchors under it, the first
\* one line long.
C10_Witness ==
  /\ pc = "parsed"
  /\ Len(sections) = 3
  /\ sections[1].level = 1
  /\ sections[2].level = 2
  /\ sections[3].level = 2
  /\ sections[2].endLine = sections[2].startLine
  /\ sections[3].endLine > sections[3].startLine

\* The positions after a of the anchors that end anchor a: those whose level
\* is at most the level of a.
endingPositions(a) ==
  {b \in (a + 1)..Len(sections) : sections[b].level <= sections[a].level}

\* C22: the endLine of every anchor is one less than the startLine of the
\* first later anchor whose level is at most its own, or the index of the last
\* line when there is no such anchor; later anchors of a deeper level do not
\* shorten it.
C22_EndLineIsBeforeNextOfSameOrHigherLevel ==
  pc = "parsed" =>
    \A a \in 1..Len(sections) :
      IF endingPositions(a) = {}
      THEN sections[a].endLine = Len(lines) - 1
      ELSE \E b \in endingPositions(a) :
             /\ \A c \in endingPositions(a) : b <= c
             /\ sections[a].endLine = sections[b].startLine - 1

\* A level-1 anchor with a level-2 anchor inside it and a level-1 anchor after
\* it: the first ends before the third, past the start of the second.
C22_Witness ==
  /\ pc = "parsed"
  /\ Len(sections) = 3
  /\ sections[1].level = 1
  /\ sections[2].level = 2
  /\ sections[3].level = 1
  /\ sections[1].endLine = sections[3].startLine - 1
  /\ sections[1].endLine >= sections[2].startLine
  /\ sections[2].endLine = sections[3].startLine - 1
  /\ sections[3].endLine = Len(lines) - 1

\* C26: the range of every level-2 anchor lies inside the range of its
\* parent, the anchor whose id is the child's parentId: the parent starts
\* before the child and the child ends no later than the parent.
C26_ChildRangeInsideParentRange ==
  pc = "parsed" =>
    \A c \in 1..Len(sections) :
      sections[c].level = 2 =>
        /\ \E p \in 1..Len(sections) : sections[p].id = sections[c].parentId
        /\ \A p \in 1..Len(sections) :
             sections[p].id = sections[c].parentId =>
               /\ sections[p].startLine < sections[c].startLine
               /\ sections[c].endLine <= sections[p].endLine

\* A manual-page title marker: an upper-case name, then a number in
\* parentheses, and nothing else.
isTitleMarker(s) ==
  \E open \in 2..(Len(s) - 2) :
    /\ s[open] = "("
    /\ \A i \in 1..(open - 1) :
         s[i] \in UpperLetters \cup Digits \cup {"_", ".", "+", "-"}
    /\ \A i \in (open + 1)..(Len(s) - 1) : s[i] \in Digits
    /\ s[Len(s)] = ")"

titleMarkerIndexes ==
  {i \in 0..(Len(lines) - 1) : isTitleMarker(trim(lines[i + 1]))}

\* C11: no anchor stands for a title-marker line (no anchor starts at such a
\* line with the line as its title), and the anchors of the sample page are
\* exactly NAME, SYNOPSIS and OPTIONS, all of level 1.
C11_TitleMarkerIsNoAnchor ==
  pc = "parsed" =>
    /\ \A i \in titleMarkerIndexes :
         ~\E a \in 1..Len(sections) :
            sections[a].startLine = i /\ sections[a].title = trim(lines[i + 1])
    /\ rawText = SAMPLE =>
         /\ [a \in 1..Len(sections) |-> sections[a].title]
              = << <<"N", "A", "M", "E">>,
                   <<"S", "Y", "N", "O", "P", "S", "I", "S">>,
                   <<"O", "P", "T", "I", "O", "N", "S">> >>
         /\ \A a \in 1..Len(sections) : sections[a].level = 1

\* The parsed sample page, whose first line is the title marker LS(1) followed
\* by a blank line.
C11_Witness ==
  /\ pc = "parsed"
  /\ rawText = SAMPLE
  /\ 0 \in titleMarkerIndexes
  /\ Len(sections) = 3

\* The words of a trimmed line: its maximal runs of non-blank code units.
wordStarts(s) ==
  {i \in 1..Len(s) :
     s[i] \notin WhiteSpace /\ (i = 1 \/ s[i - 1] \in WhiteSpace)}

\* The number of leading blank code units of a line.
indentOf(rawLine) ==
  Cardinality({i \in 1..Len(rawLine) :
                 \A j \in 1..i : rawLine[j] \in WhiteSpace})

\* The leading indentation of a line in columns, a tab counting as 8.
columnsOf(rawLine) ==
  indentOf(rawLine)
    + 7 * Cardinality({i \in 1..indentOf(rawLine) : rawLine[i] = "\t"})

\* The shape rules of a sub-level heading, all but the boundary condition,
\* with the indentation measured in columns.
hasSubLevelShape(rawLine) ==
  LET t == trim(rawLine)
      starts == wordStarts(t)
      capitalised == {i \in starts : t[i] \in UpperLetters}
      allUpper == \A i \in 1..Len(t) : t[i] \notin LowerLetters
      allLower == \A i \in 1..Len(t) : t[i] \notin UpperLetters
  IN  /\ t # <<>>
      /\ Len(t) <= 64
      /\ ~isTitleMarker(t)
      /\ ~allLower
      /\ t[1] \notin {"-", "*"}
      /\ ~\E open \in 2..(Len(t) - 2) :
            /\ t[open] = "("
            /\ t[1] \in UpperLetters \cup LowerLetters
            /\ \A i \in 2..(open - 1) : t[i] \in WordChars \cup {"-"}
            /\ \A i \in (open + 1)..(Len(t) - 1) : t[i] \in Digits
            /\ t[Len(t)] = ")"
      /\ t[Len(t)] \notin {".", ":", ";", "!", "?"}
      /\ Cardinality(starts) \in 1..6
      /\ IF allUpper THEN columnsOf(rawLine) > 1
         ELSE /\ columnsOf(rawLine) <= 1
              /\ 10 * Cardinality(capitalised) >= 6 * Cardinality(starts)
              /\ 1 \in capitalised

\* Line i has the sub-level shape, comes after a level-1 heading (an anchor
\* titled by its own line), and the line right after it is not blank and is
\* indented strictly more, in columns.
introducesIndentedBody(i) ==
  /\ i + 1 < Len(lines)
  /\ hasSubLevelShape(lines[i + 1])
  /\ \E p \in 1..Len(sections) :
       /\ sections[p].level = 1
       /\ sections[p].startLine < i
       /\ sections[p].title = trim(lines[sections[p].startLine + 1])
  /\ trim(lines[i + 2]) # <<>>
  /\ columnsOf(lines[i + 2]) > columnsOf(lines[i + 1])

\* C12: such a line is a level-2 anchor whose parentId is the id of the level-1
\* anchor it follows, also when neither neighbouring line is blank.
C12_IndentedBodyMakesSubHeading ==
  pc = "parsed" =>
    \A i \in 0..(Len(lines) - 1) :
      introducesIndentedBody(i) =>
        \E a \in 1..Len(sections) :
          /\ sections[a].startLine = i
          /\ sections[a].title = trim(lines[i + 1])
          /\ sections[a].level = 2
          /\ \E p \in 1..(a - 1) :
               /\ sections[p].level = 1
               /\ \A q \in (p + 1)..(a - 1) : sections[q].level = 2
               /\ sections[a].parentId = sections[p].id

\* A line beginning with a tab, with the tab written as 8 blanks.
tabAsBlanks(rawLine) ==
  <<" ", " ", " ", " ", " ", " ", " ", " ">> \o Tail(rawLine)

\* Line i begins with a tab, is all uppercase, has the sub-level shape of a
\* line indented 8 columns, comes after a level-1 heading and has a blank
\* line before or after it.
tabIndentedSubHeading(i) ==
  /\ i < Len(lines)
  /\ lines[i + 1] # <<>>
  /\ lines[i + 1][1] = "\t"
  /\ \A j \in 1..Len(lines[i + 1]) : lines[i + 1][j] \notin LowerLetters
  /\ hasSubLevelShape(tabAsBlanks(lines[i + 1]))
  /\ \E p \in 1..Len(sections) :
       /\ sections[p].level = 1
       /\ sections[p].startLine < i
       /\ sections[p].title = trim(lines[sections[p].startLine + 1])
  /\ (trim(lines[i]) = <<>> \/ (i + 1 < Len(lines) /\ trim(lines[i + 2]) = <<>>))

\* C20: a line is a top-level heading only if its leading indentation in
\* columns, a tab counting as 8, is at most 1, so a line beginning with a tab
\* is never a level-1 anchor; and an all-uppercase line beginning with a tab
\* counts as indented more than one column for the sub-level rule, which
\* makes it a level-2 anchor under the remaining conditions of that rule.
C20_TabCountsEightColumns ==
  pc = "parsed" =>
    /\ \A a \in 1..Len(sections) :
         /\ sections[a].level = 1
         /\ sections[a].startLine < Len(lines)
         /\ sections[a].title = trim(lines[sections[a].startLine + 1])
         => columnsOf(lines[sections[a].startLine + 1]) <= 1
    /\ \A i \in 1..(Len(lines) - 1) :
         tabIndentedSubHeading(i) =>
           \E a \in 1..Len(sections) :
             sections[a].startLine = i /\ sections[a].level = 2

\* The all-caps shape of the top-level rule: an uppercase letter or digit
\* first, then uppercase letters, digits, blanks and - _ / ( ) , . + only.
isAllCapsShaped(t) ==
  /\ t # <<>>
  /\ t[1] \in UpperLetters \cup Digits
  /\ \A i \in 2..Len(t) :
       t[i] \in UpperLetters \cup Digits \cup WhiteSpace
                  \cup {"-", "_", "/", "(", ")", ",", ".", "+"}

\* Line i is a level-1 anchor: an anchor of level 1 starts at it and is
\* titled by it.
isLevelOneAnchor(i) ==
  \E a \in 1..Len(sections) :
    /\ sections[a].startLine = i
    /\ sections[a].level = 1
    /\ sections[a].title = trim(lines[i + 1])

\* The line before or the line after line i is blank after trimming; a
\* missing line counts as blank.
hasBlankNeighbour(i) ==
  \/ i = 0
  \/ i = Len(lines) - 1
  \/ trim(lines[i]) = <<>>
  \/ trim(lines[i + 2]) = <<>>

\* The 16 well-known section names.
wellKnownNames == {
  <<"N", "A", "M", "E">>,
  <<"S", "Y", "N", "O", "P", "S", "I", "S">>,
  <<"D", "E", "S", "C", "R", "I", "P", "T", "I", "O", "N">>,
  <<"O", "P", "T", "I", "O", "N", "S">>,
  <<"C", "O", "M", "M", "A", "N", "D", "S">>,
  <<"E", "X", "A", "M", "P", "L", "E", "S">>,
  <<"F", "I", "L", "E", "S">>,
  <<"E", "N", "V", "I", "R", "O", "N", "M", "E", "N", "T">>,
  <<"E", "X", "I", "T", " ", "S", "T", "A", "T", "U", "S">>,
  <<"R", "E", "T", "U", "R", "N", " ", "V", "A", "L", "U", "E">>,
  <<"S", "T", "A", "N", "D", "A", "R", "D", "S">>,
  <<"C", "O", "M", "P", "A", "T", "I", "B", "I", "L", "I", "T", "Y">>,
  <<"B", "U", "G", "S">>,
  <<"S", "E", "E", " ", "A", "L", "S", "O">>,
  <<"A", "U", "T", "H", "O", "R">>,
  <<"C", "O", "P", "Y", "R", "I", "G", "H", "T">>}

\* The statement of C21 as written: with at most one column of indentation, a
\* well-known section name is a level-1 anchor with or without a blank
\* neighbour, and every other all-caps-shaped line is a level-1 anchor exactly
\* when it has a blank neighbour.
C21_AllCapsLineNeedsBlankNeighbour ==
  pc = "parsed" =>
    \A i \in 0..(Len(lines) - 1) :
      LET t == trim(lines[i + 1])
      IN  columnsOf(lines[i + 1]) <= 1 =>
            /\ t \in wellKnownNames => isLevelOneAnchor(i)
            /\ isAllCapsShaped(t) /\ t \notin wellKnownNames =>
                 (isLevelOneAnchor(i) <=> hasBlankNeighbour(i))

\* C21: with at most one column of indentation, a line whose trimmed text is
\* one of the 16 well-known section names is a level-1 anchor with or without
\* a blank neighbour; any other all-caps-shaped line that is no title marker
\* and has at most 72 characters after trimming is a level-1 anchor if and
\* only if the line right before or right after it is blank after trimming.
C21_HeadingNeedsBlankNeighbourUnlessWellKnown ==
  pc = "parsed" =>
    \A i \in 0..(Len(lines) - 1) :
      LET t == trim(lines[i + 1])
      IN  columnsOf(lines[i + 1]) <= 1 =>
            /\ t \in wellKnownNames => isLevelOneAnchor(i)
            /\ /\ isAllCapsShaped(t)
               /\ t \notin wellKnownNames
               /\ ~isTitleMarker(t)
               /\ Len(t) <= 72
               => (isLevelOneAnchor(i) <=> hasBlankNeighbour(i))

\* A well-known name and another all-caps line, both between non-blank
\* lines: the first is a level-1 anchor, the second is not.
C21_Witness ==
  /\ pc = "parsed"
  /\ \E i, j \in 1..(Len(lines) - 2) :
       /\ trim(lines[i + 1]) \in wellKnownNames
       /\ ~hasBlankNeighbour(i)
       /\ isLevelOneAnchor(i)
       /\ isAllCapsShaped(trim(lines[j + 1]))
       /\ trim(lines[j + 1]) \notin wellKnownNames
       /\ columnsOf(lines[j + 1]) <= 1
       /\ ~hasBlankNeighbour(j)
       /\ ~isLevelOneAnchor(j)

\* The lines C13 is about: the trimmed text starts with "-" or "*", or the line
\* is indented more than one column, a tab counting as 8, and has a lower-case
\* letter.
optionDescriptionIndexes ==
  {i \in 0..(Len(lines) - 1) :
     LET t == trim(lines[i + 1])
     IN  \/ t # <<>> /\ t[1] \in {"-", "*"}
         \/ /\ columnsOf(lines[i + 1]) > 1
            /\ \E k \in 1..Len(t) : t[k] \in LowerLetters}

\* C13: no anchor of either level stands for such a line, whatever its
\* neighbours.
C13_OptionLinesAreNoAnchors ==
  pc = "parsed" =>
    \A i \in optionDescriptionIndexes :
      ~\E a \in 1..Len(sections) :
         sections[a].startLine = i /\ sections[a].title = trim(lines[i + 1])

-----------------------------------------------------------------------------
(* Specification SpecTokens: tokenizeLine on every line of at most         *)
(* MaxTokenLen code units over TokenAlphabet and on SampleTokenLines.      *)

TokenAlphabet == {"a", "A", "1", "-", "/", "~", "U+0060", "(", ")", " "}

SampleTokenLines == {
  <<"-", "a", " ", "u", "s", "e", "s", " ", "P", "A", "T", "H", " ", "a", "n", "d",
    " ", "/", "u", "s", "r", "/", "s", "h", "a", "r", "e", "/", "m", "a", "n">>,
  <<"s", "e", "e", " ", "l", "s", "(", "1", ")">>,
  <<"l", "s", "(", "1", ")", "x", " ", "U+0060", "a", "U+0060">>,
  <<" ", " ", "N", "A", "M", "E", " ">>}

\* Lines at the length limit of the heading shortcut: an option-shaped
\* all-uppercase text of exactly the limit or one more, bare and between
\* blanks.
HeadingLimitLines ==
  UNION {{<<"-">> \o capsLine(n - 1),
          <<" ", " ", "-">> \o capsLine(n - 1) \o <<" ">>} :
           n \in {HEADING_LINE_MAX_LENGTH, HEADING_LINE_MAX_LENGTH + 1}}

InitTokens ==
  /\ pc = "start"
  /\ rawText = <<>>
  /\ lines = <<>>
  /\ prevLines = <<>>
  /\ sections = <<>>
  /\ line \in StringsUpTo(TokenAlphabet, MaxTokenLen) \cup SampleTokenLines
                \cup HeadingLimitLines
  /\ segments = <<>>
  /\ query = <<>>
  /\ caseSensitive = FALSE
  /\ matches = <<>>
  /\ filterLines = <<>>
  /\ ViewerUnmounted

\* segments = tokenizeLine(line)
TokenizeLine ==
  /\ pc = "start"
  /\ segments' = tokenizeLine(line)
  /\ pc' = "tokenized"
  /\ UNCHANGED <<rawText, lines, prevLines, sections, line,
                 query, caseSensitive, matches, filterLines>>
  /\ UNCHANGED viewerVars

NextTokens == TokenizeLine

SpecTokens == InitTokens /\ [][NextTokens]_vars

\* C3: the texts of the segments of a line, concatenated in order, are the line.
C3_SegmentsConcatenateToLine ==
  pc = "tokenized" =>
    concat([i \in 1..Len(segments) |-> segments[i].text]) = line

\* A line split into an option, plain text, an environment variable, plain
\* text and a path.
C3_Witness ==
  /\ pc = "tokenized"
  /\ Len(segments) = 5
  /\ segments[1].kind = "option"
  /\ segments[2].kind = "plain"
  /\ segments[3].kind = "env"
  /\ segments[4].kind = "plain"
  /\ segments[5].kind = "path"

\* The line takes the whole-line heading shortcut: its trimmed text is not
\* empty, has at most 72 code units and no lower-case letter.
takesHeadingShortcut ==
  LET t == trim(line)
  IN  t # <<>> /\ Len(t) <= 72 /\ t = toUpperCase(t)

\* The kind that the precedence of C17 gives a text.
kindByPrecedence(text) ==
  IF text[1] = "-" THEN "option"
  ELSE IF text[1] = "/" \/ (Len(text) >= 2 /\ text[1] = "~" /\ text[2] = "/")
       THEN "path"
  ELSE IF /\ Len(text) >= 3
          /\ text[1] \in UpperLetters
          /\ \A i \in 2..Len(text) : text[i] \in UpperLetters \cup Digits \cup {"_"}
       THEN "env"
  ELSE IF text[1] = "U+0060" /\ text[Len(text)] = "U+0060" THEN "literal"
  ELSE IF /\ Len(text) >= 5
          /\ \A i \in 1..(Len(text) - 3) : text[i] \in LowerLetters
          /\ text[Len(text) - 2] = "("
          /\ text[Len(text) - 1] \in Digits
          /\ text[Len(text)] = ")"
       THEN "command"
  ELSE "plain"

\* The segments of kind other than plain, in order.
nonPlainSegments ==
  selectAt(segments, {i \in 1..Len(segments) : segments[i].kind # "plain"})

\* C17: off the heading shortcut, every segment that is not plain has the kind
\* its text has by precedence; and the non-plain segments of
\* "-a uses PATH and /usr/share/man" are option "-a", env "PATH" and path
\* "/usr/share/man", in that order.
C17_KindFollowsPrecedence ==
  (pc = "tokenized" /\ ~takesHeadingShortcut) =>
    /\ \A i \in 1..Len(segments) :
         segments[i].kind # "plain" =>
           /\ segments[i].text # <<>>
           /\ segments[i].kind = kindByPrecedence(segments[i].text)
    /\ line = <<"-", "a", " ", "u", "s", "e", "s", " ", "P", "A", "T", "H", " ",
                "a", "n", "d", " ", "/", "u", "s", "r", "/", "s", "h", "a", "r",
                "e", "/", "m", "a", "n">>
         => nonPlainSegments
              = << [text |-> <<"-", "a">>, kind |-> "option"],
                   [text |-> <<"P", "A", "T", "H">>, kind |-> "env"],
                   [text |-> <<"/", "u", "s", "r", "/", "s", "h", "a", "r", "e",
                               "/", "m", "a", "n">>, kind |-> "path"] >>

\* The tokenized line "-a uses PATH and /usr/share/man".
C17_Witness ==
  /\ pc = "tokenized"
  /\ ~takesHeadingShortcut
  /\ Len(line) = 31
  /\ SubSeq(line, 1, 3) = <<"-", "a", " ">>
  /\ Len(nonPlainSegments) = 3
  /\ nonPlainSegments[1].kind = "option"
  /\ nonPlainSegments[2].kind = "env"
  /\ nonPlainSegments[3].kind = "path"

\* C24: a line whose trimmed text is not empty, has at most 72 characters and
\* equals its own uppercase form yields exactly one segment, of kind heading,
\* carrying the whole unmodified line, also when it holds option, env or path
\* tokens; no segment of any other line has kind heading.
C24_HeadingShortcutTakesWholeLine ==
  pc = "tokenized" =>
    IF takesHeadingShortcut
    THEN segments = <<[text |-> line, kind |-> "heading"]>>
    ELSE \A i \in 1..Len(segments) : segments[i].kind # "heading"

\* An option-shaped uppercase text of exactly 72 characters between blanks,
\* returned as one heading segment with its blanks.
C24_Witness ==
  /\ pc = "tokenized"
  /\ Len(line) = 75
  /\ Len(trim(line)) = 72
  /\ trim(line)[1] = "-"
  /\ Len(segments) = 1
  /\ segments[1].kind = "heading"
  /\ segments[1].text = line

-----------------------------------------------------------------------------
(* Specification SpecSearch: findMatches, then buildFilterLines of its     *)
(* result, on every document of at most MaxSearchLines lines drawn from    *)
(* SearchLines, with every query of at most MaxQueryLen code units over    *)
(* QueryAlphabet and the queries of SampleQueries, in both case policies.  *)

SearchLines == {
  <<>>,
  <<"a">>,
  <<"a", "a", "a">>,
  <<"a", "A", "a", "a">>,
  <<" ", "a", " ", "b">>,
  <<"b", "a">>,
  <<"U+0130", "a">>}

QueryAlphabet == {"a", "A", " "}

SampleQueries == {<<"b">>, <<"a", " ", "b">>, <<"U+0130">>}

InitSearch ==
  /\ pc = "start"
  /\ rawText = <<>>
  /\ \E n \in 0..MaxSearchLines : lines \in [1..n -> SearchLines]
  /\ prevLines = <<>>
  /\ sections = <<>>
  /\ line = <<>>
  /\ segments = <<>>
  /\ query \in StringsUpTo(QueryAlphabet, MaxQueryLen) \cup SampleQueries
  /\ caseSensitive \in BOOLEAN
  /\ matches = <<>>
  /\ filterLines = <<>>
  /\ ViewerUnmounted

\* matches = findMatches(lines, query, caseSensitive)
FindMatches ==
  /\ pc = "start"
  /\ matches' = findMatches(lines, query, caseSensitive)
  /\ pc' = "searched"
  /\ UNCHANGED <<rawText, lines, prevLines, sections, line, segments,
                 query, caseSensitive, filterLines>>
  /\ UNCHANGED viewerVars

\* filterLines = buildFilterLines(lines, matches)
BuildFilterLines ==
  /\ pc \in {"searched", "given"}
  /\ filterLines' = buildFilterLines(lines, matches)
  /\ pc' = "filtered"
  /\ UNCHANGED <<rawText, lines, prevLines, sections, line, segments,
                 query, caseSensitive, matches>>
  /\ UNCHANGED viewerVars

NextSearch == FindMatches \/ BuildFilterLines

SpecSearch == InitSearch /\ [][NextSearch]_vars

\* C2: every match lies within its line (0 <= lineIndex < length(lines),
\* 0 <= start < end <= length of the line) and the line's text from start to end
\* is the trimmed query under the case policy.
C2_MatchIsQueryWithinLine ==
  pc = "searched" =>
    \A k \in 1..Len(matches) :
      /\ 0 <= matches[k].lineIndex
      /\ matches[k].lineIndex < Len(lines)
      /\ 0 <= matches[k].start
      /\ matches[k].start < matches[k].end
      /\ matches[k].end <= Len(lines[matches[k].lineIndex + 1])
      /\ normalizeForSearch(slice(lines[matches[k].lineIndex + 1],
                                  matches[k].start, matches[k].end),
                            caseSensitive)
           = normalizeForSearch(trim(query), caseSensitive)

\* The query is empty or made of blank code units only.
isBlankQuery == \A i \in 1..Len(query) : query[i] \in WhiteSpace

\* C14: a query that is empty after trimming has no matches, and the filter
\* lines built from its matches are empty too.
C14_BlankQueryMatchesNothing ==
  (pc \in {"searched", "filtered"} /\ isBlankQuery) =>
    /\ matches = <<>>
    /\ pc = "filtered" => filterLines = <<>>

\* A query of one space, searched and filtered in a document that has a line
\* with spaces in it.
C14_Witness ==
  /\ pc = "filtered"
  /\ query = <<" ">>
  /\ \E i \in 1..Len(lines) : lines[i] = <<" ", "a", " ", "b">>
  /\ matches = <<>>

\* C15: consecutive matches are in strictly ascending (lineIndex, start) order.
C15_MatchesAscend ==
  pc = "searched" =>
    \A k \in 1..(Len(matches) - 1) :
      \/ matches[k].lineIndex < matches[k + 1].lineIndex
      \/ /\ matches[k].lineIndex = matches[k + 1].lineIndex
         /\ matches[k].start < matches[k + 1].start

\* Adjacent matches on one line, then a match on a later line after a line
\* without any.
C15_Witness ==
  /\ pc = "searched"
  /\ Len(matches) = 4
  /\ matches[1].lineIndex = 0
  /\ matches[2].lineIndex = 0
  /\ matches[3].lineIndex = 0
  /\ matches[2].start = matches[1].end
  /\ matches[4].lineIndex = 2

\* The trimmed query occurs in line l at offset p, under the case policy.
queryOccursAt(l, p) ==
  LET n == Len(trim(query))
  IN  /\ p + n <= Len(lines[l + 1])
      /\ normalizeForSearch(slice(lines[l + 1], p, p + n), caseSensitive)
           = normalizeForSearch(trim(query), caseSensitive)

\* The starts of the matches reported on line l.
reportedStarts(l) ==
  {matches[k].start : k \in {j \in 1..Len(matches) : matches[j].lineIndex = l}}

\* C23: the matches on one line never overlap (each starts at or after the
\* end of the one before), and they are the greedy leftmost enumeration of
\* the occurrences of the trimmed query in the line: every reported start is
\* an occurrence, and an occurrence is reported exactly when it does not start
\* inside an earlier reported match.
C23_GreedyLeftmostWithoutOverlap ==
  (pc = "searched" /\ ~isBlankQuery) =>
    /\ \A k \in 1..(Len(matches) - 1) :
         matches[k].lineIndex = matches[k + 1].lineIndex
           => matches[k + 1].start >= matches[k].end
    /\ \A l \in 0..(Len(lines) - 1) :
         /\ \A p \in reportedStarts(l) : queryOccursAt(l, p)
         /\ \A p \in 0..(Len(lines[l + 1]) - 1) :
              queryOccursAt(l, p) =>
                (p \in reportedStarts(l)
                   <=> ~\E q \in reportedStarts(l) :
                          q < p /\ p < q + Len(trim(query)))

\* The text compared under the case policy: as it is when case matters,
\* lower-cased when it does not.
underCasePolicy(s) == IF caseSensitive THEN s ELSE toLowerCase(s)

\* Line i contains the trimmed query under the case policy (the empty text is
\* contained in every line).
lineContainsQuery(i) ==
  LET hay == underCasePolicy(lines[i + 1])
      needle == underCasePolicy(trim(query))
  IN  \E p \in 0..Len(hay) :
        /\ p + Len(needle) <= Len(hay)
        /\ \A k \in 1..Len(needle) : hay[p + k] = needle[k]

\* Line i has an entry in the filter view.
hasFilterEntry(i) == \E k \in 1..Len(filterLines) : filterLines[k].lineIndex = i

\* Every entry of the filter view carries the text of its line.
filterTextsAreLines ==
  \A k \in 1..Len(filterLines) :
    /\ filterLines[k].lineIndex \in 0..(Len(lines) - 1)
    /\ filterLines[k].text = lines[filterLines[k].lineIndex + 1]

\* The statement of C25 as written, for every query: below the match cap, line
\* i has an entry exactly when it contains the trimmed query under the case
\* policy, and each entry's text is its line.
C25_FilterViewIsTheContainingLines ==
  (pc = "filtered" /\ Len(matches) < MATCH_CAP) =>
    /\ \A i \in 0..(Len(lines) - 1) : hasFilterEntry(i) <=> lineContainsQuery(i)
    /\ filterTextsAreLines

\* C25: below the match cap and for a query that is not empty after trimming,
\* the filter view built from findMatches has an entry for line i if and only
\* if the line contains the trimmed query under the case policy, and each
\* entry's text equals its line.
C25_FilterViewIsTheMatchingLines ==
  (pc = "filtered" /\ Len(matches) < MATCH_CAP /\ ~isBlankQuery) =>
    /\ \A i \in 0..(Len(lines) - 1) : hasFilterEntry(i) <=> lineContainsQuery(i)
    /\ filterTextsAreLines

\* A query in upper case filtered without regard to case: of three lines, the
\* two that contain it, in lower case, have entries and the blank one between
\* them has none.
C25_Witness ==
  /\ pc = "filtered"
  /\ ~caseSensitive
  /\ query = <<"A">>
  /\ Len(lines) = 3
  /\ lines[1] = <<"b", "a">>
  /\ lines[2] = <<>>
  /\ lines[3] = <<"a", "a", "a">>
  /\ Len(filterLines) = 2
  /\ filterLines[1].lineIndex = 0
  /\ filterLines[2].lineIndex = 2
  /\ filterLines[2].matchCount = 3

-----------------------------------------------------------------------------
(* Specification SpecCap: findMatches with the query "a" or "A", in both   *)
(* case policies, on the documents of n lines "aa", n up to SmallCapLines  *)
(* and n from MATCH_CAP / 2 to CapLines.                                   *)

InitCap ==
  /\ pc = "start"
  /\ rawText = <<>>
  /\ \E n \in (0..SmallCapLines) \cup ((MATCH_CAP \div 2)..CapLines) :
       lines = [i \in 1..n |-> <<"a", "a">>]
  /\ prevLines = <<>>
  /\ sections = <<>>
  /\ line = <<>>
  /\ segments = <<>>
  /\ query \in {<<"a">>, <<"A">>}
  /\ caseSensitive \in BOOLEAN
  /\ matches = <<>>
  /\ filterLines = <<>>
  /\ ViewerUnmounted

NextCap == FindMatches

SpecCap == InitCap /\ [][NextCap]_vars

\* C1: findMatches never returns more than 20,000 matches.
C1_AtMostCapMatches == pc = "searched" => Len(matches) <= MATCH_CAP

-----------------------------------------------------------------------------
(* Specification SpecFilter: buildFilterLines on every list of at most     *)
(* MaxMatches matches, in any order, with line indexes up to MaxLineIndex. *)

FilterDocument == <<<<"a">>, <<>>>>

givenMatch(lineIndex) ==
  [lineIndex |-> lineIndex, start |-> 0, end |-> 1,
   preview |-> previewOf(lineAt(FilterDocument, lineIndex))]

InitFilter ==
  /\ pc = "given"
  /\ rawText = <<>>
  /\ lines = FilterDocument
  /\ prevLines = <<>>
  /\ sections = <<>>
  /\ line = <<>>
  /\ segments = <<>>
  /\ query = <<"a">>
  /\ caseSensitive = FALSE
  /\ \E n \in 0..MaxMatches :
       \E indexes \in [1..n -> 0..MaxLineIndex] :
         matches = [k \in 1..n |-> givenMatch(indexes[k])]
  /\ filterLines = <<>>
  /\ ViewerUnmounted

NextFilter == BuildFilterLines

SpecFilter == InitFilter /\ [][NextFilter]_vars

\* The line indexes of the given matches.
matchedIndexes == {matches[k].lineIndex : k \in 1..Len(matches)}

\* The number of given matches on a line.
matchesOn(lineIndex) ==
  Cardinality({k \in 1..Len(matches) : matches[k].lineIndex = lineIndex})

RECURSIVE sumMatchCounts(_)
sumMatchCounts(entries) ==
  IF entries = <<>> THEN 0
  ELSE Head(entries).matchCount + sumMatchCounts(Tail(entries))

\* C4: the filter lines are one entry per distinct lineIndex of the match list,
\* in strictly ascending lineIndex order, each with the number of matches on its
\* line as matchCount (at least 1); the matchCounts add up to the number of
\* matches.
C4_OneFilterLinePerMatchedLine ==
  pc = "filtered" =>
    /\ {filterLines[k].lineIndex : k \in 1..Len(filterLines)} = matchedIndexes
    /\ Len(filterLines) = Cardinality(matchedIndexes)
    /\ \A k \in 1..(Len(filterLines) - 1) :
         filterLines[k].lineIndex < filterLines[k + 1].lineIndex
    /\ \A k \in 1..Len(filterLines) :
         /\ filterLines[k].matchCount >= 1
         /\ filterLines[k].matchCount = matchesOn(filterLines[k].lineIndex)
    /\ sumMatchCounts(filterLines) = Len(matches)

\* A match list given in descending line order with a repeated line.
C4_Witness ==
  /\ pc = "filtered"
  /\ Len(matches) = 4
  /\ matches[1].lineIndex = 2
  /\ matches[2].lineIndex = 0
  /\ matches[3].lineIndex = 2
  /\ matches[4].lineIndex = 1
  /\ Len(filterLines) = 3

-----------------------------------------------------------------------------
(* Specification SpecViewer: the search session of App.  A handler runs    *)
(* when the previous render's effects have run (phase "idle"); a handler   *)
(* that sets state leaves phase "commit", and RunEffects then runs the     *)
(* effects whose dependencies changed.  The values App derives with        *)
(* useMemo (lines, sections, allMatches, filterLines) are recomputed by    *)
(* the handler that changes what they depend on.                           *)

SearchModes == {"find", "filter"}

\* The raw texts loadManPage resolves with, whatever the topic: the page
\* comes from outside the viewer.  One has the lines "a", "b a", "aa"; the
\* other the section LICENSE, which the outline hides, with the line "b".
ViewerPages ==
  {<<"a", "\n", "b", " ", "a", "\n", "a", "a", "\n">>,
   <<"L", "I", "C", "E", "N", "S", "E", "\n", "\n", "b", "\n">>}

\* The texts typed into the search input.
ViewerQueries == {<<>>, <<" ">>, <<"a">>, <<"b">>, <<"a", "a">>}

\* The index of the last match on the line instead of the first.
firstMatchIndexByLineLast(found, lineIndex) ==
  LET onLine == {k \in 0..(Len(found) - 1) : found[k + 1].lineIndex = lineIndex}
  IN  IF onLine = {} THEN -1 ELSE nthOf(onLine, Cardinality(onLine))

\* firstMatchIndexByLine.get(lineIndex): the index of the first match on the
\* line, or -1 for undefined.
firstMatchIndexByLine(found, lineIndex) ==
  LET onLine == {k \in 0..(Len(found) - 1) : found[k + 1].lineIndex = lineIndex}
  IN  IF onLine = {} THEN -1 ELSE nthOf(onLine, 1)

\* The index of activeMatch in allMatches, or -1 when activeMatch is null:
\* allMatches[Math.min(activeMatchIndex, Math.max(allMatches.length - 1, 0))] ?? null
activeMatchPosition(found, index) ==
  LET last == IF Len(found) - 1 > 0 THEN Len(found) - 1 ELSE 0
      at == IF index < last THEN index ELSE last
  IN  IF at < Len(found) THEN at ELSE -1

\* filterLines[activeFilterIndex] is defined.
hasFocusedFilterLine == activeFilterIndex < Len(filterLines)

\* The dependency values of the pending-anchor effect and of the active-match
\* effect.
depsNow ==
  [linesLength |-> Len(lines), searchMode |-> searchMode, searchQuery |-> query,
   activeMatch |-> activeMatchPosition(matches, activeMatchIndex)]

\* The values derived from the document text raw and the search query q.
Derive(raw, q) ==
  /\ rawText' = raw
  /\ IF raw = rawText
     THEN UNCHANGED <<lines, sections>>    \* useMemo: the same raw text
     ELSE /\ lines' = splitLines(raw)
          /\ sections' = parseSections(splitLines(raw))
  /\ query' = q
  /\ matches' = findMatches(splitLines(raw), q, FALSE)
  /\ filterLines' = buildFilterLines(splitLines(raw),
                                     findMatches(splitLines(raw), q, FALSE))

\* What no handler of the viewer changes.
parserOnlyVars == <<pc, prevLines, line, segments, caseSensitive,
                    visibleLines, storedSettings, persistTimeout>>

documentVars == <<rawText, lines, sections>>

searchVars == <<query, matches, filterLines>>

loadVars == <<loading, errorMessage, pendingLoads, settingsInitialized,
              documentTopic, lastRequested>>

\* Math.max and Math.min on font scales; NaN stands for a value that
\* converts to no number.
NaN == -100000

\* A stored value that is no number and converts to none, such as the
\* string "abc".
NonNumeric == -200000

\* The stored value null, which converts to 0.
JsonNull == -300000

\* ToNumber, as Math.max and Math.min apply it to their arguments.
toNumber(value) ==
  IF value = NonNumeric THEN NaN ELSE IF value = JsonNull THEN 0 ELSE value

mathMax(a, b) ==
  LET x == toNumber(a)
      y == toNumber(b)
  IN  IF x = NaN \/ y = NaN THEN NaN ELSE IF x > y THEN x ELSE y

mathMin(a, b) ==
  LET x == toNumber(a)
      y == toNumber(b)
  IN  IF x = NaN \/ y = NaN THEN NaN ELSE IF x < y THEN x ELSE y

\* A field of a partial settings object, or the default for a missing one
\* ({...DEFAULT_SETTINGS, ...input}).
mergedField(input, name) ==
  IF name \in DOMAIN input THEN input[name] ELSE DEFAULT_SETTINGS[name]

sanitizeSettings(input) ==
  [theme |-> IF mergedField(input, "theme") = "light" THEN "light" ELSE "dark",
   fontScale |-> mathMin(MAX_FONT_SCALE,
                         mathMax(MIN_FONT_SCALE, mergedField(input, "fontScale"))),
   lastSearchMode |-> IF mergedField(input, "lastSearchMode") = "filter"
                      THEN "filter" ELSE "find"]

\* The stored settings the search session starts from.
ViewerStoredSettings ==
  {[lastSearchMode |-> "find"], [lastSearchMode |-> "filter"]}

\* App mounted with the default state, getSettings not yet settled.
InitViewer ==
  /\ pc = "viewer"
  /\ rawText = <<>>
  /\ lines = <<>>
  /\ prevLines = <<>>
  /\ sections = <<>>
  /\ line = <<>>
  /\ segments = <<>>
  /\ query = <<>>
  /\ caseSensitive = FALSE
  /\ matches = <<>>
  /\ filterLines = <<>>
  /\ searchMode = DEFAULT_SETTINGS.lastSearchMode
  /\ activeMatchIndex = 0
  /\ activeFilterIndex = 0
  /\ pendingAnchorRef = NoAnchor
  /\ loading = FALSE
  /\ errorMessage = "none"
  /\ pendingLoads = <<>>
  /\ phase = "idle"
  /\ effectDeps = [linesLength |-> 0, searchMode |-> searchMode,
                   searchQuery |-> <<>>, activeMatch |-> -1]
  /\ scrollTarget = NoAnchor
  /\ lastEvent = "mount"
  /\ visibleLines = <<>>
  /\ settings = DEFAULT_SETTINGS
  /\ storedSettings \in ViewerStoredSettings
  /\ settingsInitialized = FALSE
  /\ documentTopic = <<>>
  /\ lastRequested = <<>>
  /\ persistTimeout = FALSE

\* The filter list is rendered instead of the document.
filterViewShown(mode, q) == mode = "filter" /\ trim(q) # <<>>

\* scrollToLine: the scroll position after the call, which does nothing
\* without the document viewport or without the line's node.
scrollToLine(lineIndex, current) ==
  IF filterViewShown(searchMode, query) \/ lineIndex >= Len(lines)
  THEN current
  ELSE lineIndex

\* The handlers run between renders, on the values of the last render.
HandlerEnabled == pc = "viewer" /\ phase = "idle"

\* onChange of the search input: the first match becomes the active one.
ChangeSearchQuery(value) ==
  /\ HandlerEnabled
  /\ value # query
  /\ activeMatchIndex' = 0
  /\ activeFilterIndex' = 0
  /\ Derive(rawText, value)
  /\ phase' = "commit"
  /\ lastEvent' = "onChange"
  /\ UNCHANGED <<parserOnlyVars, settings, searchMode, pendingAnchorRef, loadVars,
                 effectDeps, scrollTarget>>

\* changeSearchMode: leaving filter mode records the focused filter line.
ChangeSearchMode(mode) ==
  /\ HandlerEnabled
  /\ pendingAnchorRef' =
       IF searchMode = "filter" /\ mode # "filter" /\ hasFocusedFilterLine
       THEN filterLines[activeFilterIndex + 1].lineIndex
       ELSE pendingAnchorRef
  /\ activeMatchIndex' = 0
  /\ activeFilterIndex' = 0
  /\ searchMode' = mode
  /\ settings' = [settings EXCEPT !.lastSearchMode = mode]
  /\ phase' = "commit"
  /\ lastEvent' = "changeSearchMode"
  /\ UNCHANGED <<parserOnlyVars, documentVars, searchVars, loadVars,
                 effectDeps, scrollTarget>>

\* goToMatch stepping without the wrap-around.
nextMatchIndexUnwrapped(current, direction, n) == current + direction

\* The updater of goToMatch: (current + direction + n) % n.
nextMatchIndex(current, direction, n) == (current + direction + n) % n

\* goToMatch: nothing without matches, otherwise one step around the list.
goToMatch(direction) ==
  /\ lastEvent' = IF direction = 1 THEN "next" ELSE "previous"
  /\ IF Len(matches) = 0
     THEN UNCHANGED <<activeMatchIndex, phase>>
     ELSE /\ activeMatchIndex' =
               nextMatchIndex(activeMatchIndex, direction, Len(matches))
          /\ phase' = "commit"
  /\ UNCHANGED <<parserOnlyVars, documentVars, searchVars, loadVars,
                 settings, searchMode, activeFilterIndex, pendingAnchorRef,
                 effectDeps, scrollTarget>>

\* The Prev and Next buttons, disabled without matches.
ClickMatchButton(direction) ==
  /\ HandlerEnabled
  /\ Len(matches) # 0
  /\ goToMatch(direction)

\* selectFilterLine: back to find mode on the first match of the line.
selectFilterLine(lineIndex, filterIndex) ==
  /\ activeFilterIndex' = filterIndex
  /\ activeMatchIndex' =
       IF firstMatchIndexByLine(matches, lineIndex) # -1
       THEN firstMatchIndexByLine(matches, lineIndex)
       ELSE activeMatchIndex
  /\ pendingAnchorRef' = lineIndex
  /\ searchMode' = "find"
  /\ settings' = [settings EXCEPT !.lastSearchMode = "find"]
  /\ phase' = "commit"
  /\ lastEvent' = "selectFilterLine"
  /\ UNCHANGED <<parserOnlyVars, documentVars, searchVars, loadVars,
                 effectDeps, scrollTarget>>

\* filterLines.findIndex(entry => entry.lineIndex === lineIndex), as used by
\* the Enter key: -1 becomes 0.
filterIndexOfLine(lineIndex) ==
  LET at == {k \in 0..(Len(filterLines) - 1) :
               filterLines[k + 1].lineIndex = lineIndex}
  IN  IF at = {} THEN 0 ELSE nthOf(at, 1)

\* handleSearchInputKeyDown for Enter, with or without Shift.
SearchInputEnter(shiftKey) ==
  /\ HandlerEnabled
  /\ IF searchMode = "find"
     THEN goToMatch(IF shiftKey THEN -1 ELSE 1)
     ELSE IF Len(filterLines) = 0
     THEN /\ lastEvent' = "enterWithoutFilterLine"
          /\ UNCHANGED <<parserOnlyVars, documentVars, searchVars, loadVars,
                         settings, searchMode, activeMatchIndex, activeFilterIndex,
                         pendingAnchorRef, phase, effectDeps, scrollTarget>>
     ELSE LET focused == IF hasFocusedFilterLine
                         THEN filterLines[activeFilterIndex + 1]
                         ELSE filterLines[1]
          IN  selectFilterLine(focused.lineIndex,
                               filterIndexOfLine(focused.lineIndex))

\* filterLines.slice(0, 1200): the filter lines that are rendered.
RENDERED_FILTER_LINES == 1200

\* A click on a rendered filter line.
ClickFilterLine(index) ==
  /\ HandlerEnabled
  /\ filterViewShown(searchMode, query)
  /\ index < Len(filterLines)
  /\ index < RENDERED_FILTER_LINES
  /\ selectFilterLine(filterLines[index + 1].lineIndex, index)

\* clearSearch, from the Clear button (disabled for an empty query).
ClearSearch ==
  /\ HandlerEnabled
  /\ Len(query) # 0
  /\ IF searchMode = "filter" /\ hasFocusedFilterLine
     THEN /\ pendingAnchorRef' = filterLines[activeFilterIndex + 1].lineIndex
          /\ searchMode' = "find"
          /\ settings' = [settings EXCEPT !.lastSearchMode = "find"]
     ELSE UNCHANGED <<pendingAnchorRef, searchMode, settings>>
  /\ Derive(rawText, <<>>)
  /\ phase' = "commit"
  /\ lastEvent' = "clearSearch"
  /\ UNCHANGED <<parserOnlyVars, activeMatchIndex, activeFilterIndex, loadVars,
                 effectDeps, scrollTarget>>

LOW_VALUE_SECTION_TITLES ==
  {<<"A", "U", "T", "H", "O", "R">>,
   <<"A", "U", "T", "H", "O", "R", "S">>,
   <<"C", "O", "P", "Y", "R", "I", "G", "H", "T">>,
   <<"L", "I", "C", "E", "N", "S", "E">>,
   <<"L", "I", "C", "E", "N", "S", "E", "S">>,
   <<"S", "E", "E", " ", "A", "L", "S", "O">>,
   <<"C", "O", "L", "O", "P", "H", "O", "N">>}

normalizeSectionTitle(title) == toUpperCase(trim(title))

\* The ids of the level-1 sections the outline hides.
hiddenTopLevelIds(all) ==
  {all[k].id : k \in {j \in 1..Len(all) :
                        /\ all[j].level = 1
                        /\ normalizeSectionTitle(all[j].title)
                             \in LOW_VALUE_SECTION_TITLES}}

\* visibleSections: the positions in sections of the sections of the outline.
visibleSections(all) ==
  {k \in 1..Len(all) :
     IF all[k].level = 1
     THEN all[k].id \notin hiddenTopLevelIds(all)
     ELSE ~("parentId" \in DOMAIN all[k]
              /\ all[k].parentId \in hiddenTopLevelIds(all))}

\* A click on a section of the outline scrolls to its first line.  A section
\* under a collapsed parent is clicked after the parent is expanded, which
\* changes nothing else.
JumpToSection(k) ==
  /\ HandlerEnabled
  /\ k \in visibleSections(sections)
  /\ scrollTarget' = scrollToLine(sections[k].startLine, scrollTarget)
  /\ lastEvent' = "jumpToSection"
  /\ UNCHANGED <<parserOnlyVars, documentVars, searchVars, loadVars,
                 settings, searchMode, activeMatchIndex, activeFilterIndex,
                 pendingAnchorRef, phase, effectDeps>>

\* The texts of the topic input at the moment the form is submitted.
ViewerTopics == {<<" ">>, <<"l", "s">>, <<" ", "b">>}

\* loadTopic up to its await: a blank topic only sets the message, any other
\* starts a load.
loadTopicBeginsBeforeCheck(topic) ==
  /\ lastRequested' = topic
  /\ loading' = TRUE
  /\ IF trim(topic) = <<>>
     THEN /\ errorMessage' = "enterTopic"
          /\ UNCHANGED pendingLoads
     ELSE /\ errorMessage' = "none"
          /\ pendingLoads' = Append(pendingLoads, trim(topic))

loadTopicBegins(topic) ==
  /\ lastRequested' = topic
  /\ IF trim(topic) = <<>>
     THEN /\ errorMessage' = "enterTopic"
          /\ UNCHANGED <<loading, pendingLoads>>
     ELSE /\ loading' = TRUE
          /\ errorMessage' = "none"
          /\ pendingLoads' = Append(pendingLoads, trim(topic))

\* handleSubmit, from the Open button (disabled while loading).
HandleSubmit(topicInput) ==
  /\ HandlerEnabled
  /\ ~loading
  /\ loadTopicBegins(topicInput)
  /\ phase' = "commit"
  /\ lastEvent' = "submit"
  /\ UNCHANGED <<parserOnlyVars, documentVars, searchVars, searchMode,
                 settings, settingsInitialized, documentTopic,
                 activeMatchIndex, activeFilterIndex, pendingAnchorRef,
                 effectDeps, scrollTarget>>

\* The start-up effect once getSettings has settled: the saved settings and
\* search mode are taken over when it resolved, the defaults kept when it
\* rejected, and loadTopic("ls") begins.
SettingsRead(resolved) ==
  /\ HandlerEnabled
  /\ ~settingsInitialized
  /\ IF resolved
     THEN /\ settings' = sanitizeSettings(storedSettings)
          /\ searchMode' = sanitizeSettings(storedSettings).lastSearchMode
     ELSE /\ settings' = DEFAULT_SETTINGS
          /\ UNCHANGED searchMode
  /\ settingsInitialized' = TRUE
  /\ loadTopicBegins(<<"l", "s">>)
  /\ phase' = "commit"
  /\ lastEvent' = "settingsRead"
  /\ UNCHANGED <<parserOnlyVars, documentVars, searchVars, documentTopic,
                 activeMatchIndex, activeFilterIndex, pendingAnchorRef,
                 effectDeps, scrollTarget>>

\* The sequence without its k-th element.
withoutAt(seq, k) == SubSeq(seq, 1, k - 1) \o SubSeq(seq, k + 1, Len(seq))

\* loadTopic after loadManPage resolved, with the raw text page, for the k-th
\* load in flight.
LoadSucceeds(k, page) ==
  /\ HandlerEnabled
  /\ k \in 1..Len(pendingLoads)
  /\ Derive(page, <<>>)
  /\ documentTopic' = pendingLoads[k]
  /\ activeMatchIndex' = 0
  /\ activeFilterIndex' = 0
  /\ pendingAnchorRef' = 0
  /\ loading' = FALSE
  /\ pendingLoads' = withoutAt(pendingLoads, k)
  /\ phase' = "commit"
  /\ lastEvent' = "loadSucceeded"
  /\ UNCHANGED <<parserOnlyVars, searchMode, settings, settingsInitialized,
                 lastRequested, errorMessage, effectDeps, scrollTarget>>

\* loadTopic after loadManPage rejected for the k-th load in flight.
LoadFails(k) ==
  /\ HandlerEnabled
  /\ k \in 1..Len(pendingLoads)
  /\ errorMessage' = "loadFailed"
  /\ loading' = FALSE
  /\ pendingLoads' = withoutAt(pendingLoads, k)
  /\ phase' = "commit"
  /\ lastEvent' = "loadFailed"
  /\ UNCHANGED <<parserOnlyVars, documentVars, searchVars, searchMode,
                 settings, settingsInitialized, documentTopic, lastRequested,
                 activeMatchIndex, activeFilterIndex, pendingAnchorRef,
                 effectDeps, scrollTarget>>

\* The pending-anchor effect ran, since one of its dependencies changed.
pendingEffectRuns ==
  \/ effectDeps.linesLength # depsNow.linesLength
  \/ effectDeps.searchMode # depsNow.searchMode
  \/ effectDeps.searchQuery # depsNow.searchQuery

\* The pending-anchor effect gets past its two early returns.
pendingAnchorConsumed ==
  /\ pendingEffectRuns
  /\ ~(pendingAnchorRef = NoAnchor \/ Len(lines) = 0)
  /\ ~(searchMode = "filter" /\ trim(query) # <<>>)

activeMatchEffectRuns ==
  \/ effectDeps.activeMatch # depsNow.activeMatch
  \/ effectDeps.searchMode # depsNow.searchMode
  \/ effectDeps.searchQuery # depsNow.searchQuery

\* The active-match effect gets past its early return.
activeMatchScrolled ==
  /\ activeMatchEffectRuns
  /\ ~(searchMode # "find" \/ trim(query) = <<>> \/ depsNow.activeMatch = -1)

\* The handlers that replace the settings object.
SettingsEvents ==
  {"settingsRead", "updateSettings", "changeSearchMode", "selectFilterLine"}

\* The persist effect ran, since the settings object or the search mode
\* changed: it clears its time-out and, once the settings were read, starts
\* a new one.
persistEffectRuns ==
  \/ lastEvent \in SettingsEvents
  \/ effectDeps.searchMode # depsNow.searchMode

\* The effects of one commit, in their order in the component.
RunEffects ==
  /\ pc = "viewer"
  /\ phase = "commit"
  /\ pendingAnchorRef' =
       IF pendingAnchorConsumed THEN NoAnchor ELSE pendingAnchorRef
  /\ scrollTarget' =
       LET afterPending == IF pendingAnchorConsumed
                           THEN scrollToLine(pendingAnchorRef, scrollTarget)
                           ELSE scrollTarget
       IN  IF activeMatchScrolled
           THEN scrollToLine(matches[depsNow.activeMatch + 1].lineIndex,
                             afterPending)
           ELSE afterPending
  /\ persistTimeout' =
       IF persistEffectRuns THEN settingsInitialized ELSE persistTimeout
  /\ effectDeps' = depsNow
  /\ phase' = "idle"
  /\ UNCHANGED <<pc, prevLines, line, segments, caseSensitive, visibleLines,
                 storedSettings, documentVars, searchVars, loadVars,
                 settings, searchMode, activeMatchIndex, activeFilterIndex,
                 lastEvent>>

NextViewer ==
  \/ \E value \in ViewerQueries : ChangeSearchQuery(value)
  \/ \E mode \in SearchModes : ChangeSearchMode(mode)
  \/ \E direction \in {1, -1} : ClickMatchButton(direction)
  \/ \E shiftKey \in BOOLEAN : SearchInputEnter(shiftKey)
  \/ \E index \in 0..(Len(filterLines) - 1) : ClickFilterLine(index)
  \/ ClearSearch
  \/ \E k \in visibleSections(sections) : JumpToSection(k)
  \/ \E topicInput \in ViewerTopics : HandleSubmit(topicInput)
  \/ \E resolved \in BOOLEAN : SettingsRead(resolved)
  \/ \E k \in 1..Len(pendingLoads), page \in ViewerPages : LoadSucceeds(k, page)
  \/ \E k \in 1..Len(pendingLoads) : LoadFails(k)
  \/ RunEffects

SpecViewer == InitViewer /\ [][NextViewer]_vars

-----------------------------------------------------------------------------
(* Specification SpecSettings: the settings of the viewer from mount on,   *)
(* read from storage at start-up, changed by the zoom controls and written *)
(* back by the persist effect, for the stored objects of StoredSettings.   *)

\* What JSON.parse can return for the stored settings: font scales below,
\* inside and above the range, a font scale that is no number or null,
\* unknown theme and search mode names, and missing fields.
StoredSettings == {
  [theme |-> "dark"],
  [theme |-> "light", fontScale |-> 110000, lastSearchMode |-> "filter"],
  [theme |-> "blue", fontScale |-> 50000, lastSearchMode |-> "regex"],
  [fontScale |-> 300000],
  [fontScale |-> MIN_FONT_SCALE],
  [fontScale |-> JsonNull, lastSearchMode |-> "find"],
  [fontScale |-> NonNumeric]}

\* x + 0.1 in double arithmetic, for every font scale x that the zoom
\* controls reach from 0.75, 1, 1.1 and 2.25.
sumWithTenth ==
  (75000 :> 85000 @@ 75001 :> 85001 @@ 80000 :> 90000 @@ 84991 :> 94991
   @@ 84999 :> 94999 @@ 85000 :> 95000 @@ 85001 :> 95001 @@ 90000 :> 100000
   @@ 94991 :> 104990 @@ 94999 :> 104998 @@ 95000 :> 105000 @@ 95001 :> 105000
   @@ 100000 :> 110000 @@ 104990 :> 114992 @@ 104998 :> 115000 @@ 105000 :> 115002
   @@ 110000 :> 120002 @@ 114992 :> 124992 @@ 115000 :> 125000 @@ 115002 :> 125002
   @@ 120002 :> 130002 @@ 124992 :> 134992 @@ 125000 :> 135000 @@ 125002 :> 135002
   @@ 130002 :> 140004 @@ 134992 :> 144994 @@ 135000 :> 145002 @@ 135002 :> 145004
   @@ 140004 :> 150004 @@ 144994 :> 154994 @@ 145002 :> 155002 @@ 145004 :> 155004
   @@ 150004 :> 160004 @@ 154994 :> 164996 @@ 155002 :> 165004 @@ 155004 :> 165006
   @@ 160004 :> 170006 @@ 164996 :> 174996 @@ 165004 :> 175004 @@ 165006 :> 175006
   @@ 170006 :> 180006 @@ 174996 :> 184996 @@ 175004 :> 185004 @@ 175006 :> 185006
   @@ 180006 :> 190008 @@ 184996 :> 194998 @@ 185004 :> 195006 @@ 185006 :> 195008
   @@ 190008 :> 200008 @@ 194998 :> 205000 @@ 195006 :> 205008 @@ 195008 :> 205008
   @@ 200008 :> 210008 @@ 205000 :> 215000 @@ 205008 :> 215008 @@ 210008 :> 220008
   @@ 215000 :> 225000 @@ 215008 :> 225008 @@ 220008 :> 230012 @@ 225000 :> 235000)

\* x - 0.1 in double arithmetic, for the same font scales.
differenceWithTenth ==
  (75000 :> 65000 @@ 75001 :> 65001 @@ 80000 :> 70001 @@ 84991 :> 74991
   @@ 84999 :> 74999 @@ 85000 :> 75000 @@ 85001 :> 75001 @@ 90000 :> 80000
   @@ 94991 :> 84991 @@ 94999 :> 84999 @@ 95000 :> 85000 @@ 95001 :> 85001
   @@ 100000 :> 90000 @@ 104990 :> 94991 @@ 104998 :> 94999 @@ 105000 :> 95001
   @@ 110000 :> 100000 @@ 114992 :> 104990 @@ 115000 :> 104998 @@ 115002 :> 105000
   @@ 120002 :> 110000 @@ 124992 :> 114992 @@ 125000 :> 115000 @@ 125002 :> 115002
   @@ 130002 :> 120002 @@ 134992 :> 124992 @@ 135000 :> 125000 @@ 135002 :> 125002
   @@ 140004 :> 130002 @@ 144994 :> 134992 @@ 145002 :> 135000 @@ 145004 :> 135002
   @@ 150004 :> 140004 @@ 154994 :> 144994 @@ 155002 :> 145002 @@ 155004 :> 145004
   @@ 160004 :> 150004 @@ 164996 :> 154994 @@ 165004 :> 155002 @@ 165006 :> 155004
   @@ 170006 :> 160004 @@ 174996 :> 164996 @@ 175004 :> 165004 @@ 175006 :> 165006
   @@ 180006 :> 170006 @@ 184996 :> 174996 @@ 185004 :> 175004 @@ 185006 :> 175006
   @@ 190008 :> 180006 @@ 194998 :> 184996 @@ 195006 :> 185004 @@ 195008 :> 185006
   @@ 200008 :> 190008 @@ 205000 :> 194998 @@ 205008 :> 195006 @@ 210008 :> 200008
   @@ 215000 :> 205000 @@ 215008 :> 205008 @@ 220008 :> 210008 @@ 225000 :> 215000)

\* current.fontScale + 0.1: NaN stays NaN.
plusTenth(value) == IF value = NaN THEN NaN ELSE sumWithTenth[value]

\* current.fontScale - 0.1: NaN stays NaN.
minusTenth(value) == IF value = NaN THEN NaN ELSE differenceWithTenth[value]

clampFontScale(value) ==
  mathMax(MIN_FONT_SCALE, mathMin(MAX_FONT_SCALE, value))

\* JSON.stringify followed by JSON.parse: NaN is written as null.
jsonRoundTrip(value) ==
  [value EXCEPT !.fontScale = IF @ = NaN THEN JsonNull ELSE @]

\* getBrowserSettings on the stored object.
getBrowserSettings == sanitizeSettings(storedSettings)

\* backend mergeSettings: the patch spread over the base, sanitised.
backendMergeSettings(base, patch) ==
  sanitizeSettings([name \in DOMAIN base \cup DOMAIN patch |->
                      IF name \in DOMAIN patch THEN patch[name] ELSE base[name]])

InitSettings ==
  /\ pc = "viewer"
  /\ rawText = <<>>
  /\ lines = <<>>
  /\ prevLines = <<>>
  /\ sections = <<>>
  /\ line = <<>>
  /\ segments = <<>>
  /\ query = <<>>
  /\ caseSensitive = FALSE
  /\ matches = <<>>
  /\ filterLines = <<>>
  /\ searchMode = DEFAULT_SETTINGS.lastSearchMode
  /\ activeMatchIndex = 0
  /\ activeFilterIndex = 0
  /\ pendingAnchorRef = NoAnchor
  /\ loading = FALSE
  /\ errorMessage = "none"
  /\ pendingLoads = <<>>
  /\ phase = "idle"
  /\ effectDeps = [linesLength |-> 0, searchMode |-> searchMode,
                   searchQuery |-> <<>>, activeMatch |-> -1]
  /\ scrollTarget = NoAnchor
  /\ lastEvent = "mount"
  /\ visibleLines = <<>>
  /\ settings = DEFAULT_SETTINGS
  /\ storedSettings \in StoredSettings
  /\ settingsInitialized = FALSE
  /\ documentTopic = <<>>
  /\ lastRequested = <<>>
  /\ persistTimeout = FALSE

\* A handler that replaces the settings object:
\* setSettings((current) => mergeSettings(current, patch)).
UpdateSettings(next) ==
  /\ HandlerEnabled
  /\ settings' = next
  /\ phase' = "commit"
  /\ lastEvent' = "updateSettings"
  /\ UNCHANGED <<parserOnlyVars, documentVars, searchVars, loadVars,
                 searchMode, activeMatchIndex, activeFilterIndex,
                 pendingAnchorRef, effectDeps, scrollTarget>>

\* Ctrl with + or =, and the zoom-in button.
ZoomIn ==
  UpdateSettings([settings EXCEPT !.fontScale = clampFontScale(plusTenth(@))])

\* Ctrl with -, and the zoom-out button.
ZoomOut ==
  UpdateSettings([settings EXCEPT !.fontScale = clampFontScale(minusTenth(@))])

\* Ctrl with 0, and the reset button.
ZoomReset ==
  UpdateSettings([settings EXCEPT !.fontScale = DEFAULT_SETTINGS.fontScale])

\* The theme button.
ToggleTheme ==
  UpdateSettings([settings EXCEPT
                    !.theme = IF @ = "dark" THEN "light" ELSE "dark"])

\* The resize listener: a new settings object with the window's size, which
\* is not among the fields kept here.
Resize == UpdateSettings(settings)

\* The time-out of the persist effect fires: the settings with the current
\* search mode are merged into the stored ones and written.
PersistSettings ==
  /\ HandlerEnabled
  /\ persistTimeout
  /\ storedSettings' =
       jsonRoundTrip(backendMergeSettings(
         getBrowserSettings, [settings EXCEPT !.lastSearchMode = searchMode]))
  /\ persistTimeout' = FALSE
  /\ lastEvent' = "persisted"
  /\ UNCHANGED <<pc, prevLines, line, segments, caseSensitive, visibleLines,
                 documentVars, searchVars, loadVars, settings, searchMode,
                 activeMatchIndex, activeFilterIndex, pendingAnchorRef,
                 effectDeps, scrollTarget, phase>>

NextSettings ==
  \/ \E resolved \in BOOLEAN : SettingsRead(resolved)
  \/ ZoomIn
  \/ ZoomOut
  \/ ZoomReset
  \/ ToggleTheme
  \/ Resize
  \/ \E mode \in SearchModes : ChangeSearchMode(mode)
  \/ PersistSettings
  \/ \E k \in 1..Len(pendingLoads), page \in ViewerPages : LoadSucceeds(k, page)
  \/ \E k \in 1..Len(pendingLoads) : LoadFails(k)
  \/ RunEffects

SpecSettings == InitSettings /\ [][NextSettings]_vars

\* The font scale is a number of the permitted range.
fontScaleInRange(value) ==
  /\ value # NaN
  /\ value >= MIN_FONT_SCALE
  /\ value <= MAX_FONT_SCALE

isSanitised(value) ==
  /\ fontScaleInRange(value.fontScale)
  /\ value.theme \in {"dark", "light"}
  /\ value.lastSearchMode \in {"find", "filter"}

\* C30: from default or loaded settings, every sequence of zoom in, zoom out
\* and reset keeps fontScale within [0.75, 2.25]; the settings read from
\* storage and the settings written to it have fontScale in that range,
\* theme dark or light and lastSearchMode find or filter; and sanitising
\* twice gives what sanitising once gives.
C30_FontScaleWithinRange ==
  pc = "viewer" =>
    /\ fontScaleInRange(settings.fontScale)
    /\ lastEvent = "settingsRead" => isSanitised(settings)
    /\ lastEvent = "persisted" => isSanitised(storedSettings)
    /\ sanitizeSettings(sanitizeSettings(storedSettings))
         = sanitizeSettings(storedSettings)

-----------------------------------------------------------------------------
(* Specification SpecHighlight: the lines App renders in find mode, each   *)
(* tokenized and highlighted, next to the match list of the same document  *)
(* and query, on every document of at most MaxRenderLines lines drawn from *)
(* RenderLines with the queries of RenderQueries.                          *)

MaxRenderLines == 2

RenderLines == {
  <<>>,
  <<"a", " ", "a", "a">>,                \* plain text
  <<"-", "a", " ", "a">>,                \* an option token, then plain text
  <<" ", " ", "-", "a", " ", "a">>,      \* the same, indented 2 columns
  <<"\t", "a", "/", "a">>,               \* plain text, then a path token
  <<"A", "A">>}                          \* a whole-line heading segment

RenderQueries ==
  {<<>>, <<"a">>, <<"a", "a">>, <<"-", "a">>, <<"a", " ", "a">>, <<" ", "A", " ">>}

\* String.prototype.slice(from, to), to clamped to the length.
sliceWithin(s, from, to) ==
  IF from >= Len(s) THEN <<>>
  ELSE SubSeq(s, from + 1, IF to > Len(s) THEN Len(s) ELSE to)

\* The while loop of highlightText from cursor on: plain spans and marks.
RECURSIVE highlightFrom(_, _, _, _)
highlightFrom(text, lowerTerm, termLength, cursor) ==
  LET matchIndex == indexOf(toLowerCase(text), lowerTerm, cursor)
      matchEnd == matchIndex + termLength
      before == IF matchIndex > cursor
                THEN <<[mark |-> FALSE, text |-> sliceWithin(text, cursor, matchIndex)]>>
                ELSE <<>>
  IN  IF ~(cursor < Len(text)) THEN <<>>
      ELSE IF matchIndex = -1
      THEN <<[mark |-> FALSE, text |-> sliceWithin(text, cursor, Len(text))]>>
      ELSE before
             \o <<[mark |-> TRUE, text |-> sliceWithin(text, matchIndex, matchEnd)]>>
             \o highlightFrom(text, lowerTerm, termLength, matchEnd)

\* highlightText: the nodes rendered for one token's text.
highlightText(text, q) ==
  IF trim(q) = <<>> THEN <<[mark |-> FALSE, text |-> text]>>
  ELSE highlightFrom(text, toLowerCase(trim(q)), Len(trim(q)), 0)

\* The length of the leading run of tabs and spaces: /^[\t ]+/.
leadingWhitespaceLength(sourceLine) == leadingRun(sourceLine, {"\t", " "})

\* One entry of visibleLines: the stripped indentation and, for each token
\* of the rest of the line, its kind and highlighted nodes.
renderLine(sourceLine, q, mode) ==
  LET lineContent == sliceWithin(sourceLine, leadingWhitespaceLength(sourceLine),
                                 Len(sourceLine))
      tokens == tokenizeLine(lineContent)
  IN  [indent |-> leadingWhitespaceLength(sourceLine),
       spans |-> [k \in 1..Len(tokens) |->
                    [kind |-> tokens[k].kind,
                     nodes |-> highlightText(tokens[k].text,
                                             IF mode = "find" THEN q ELSE <<>>)]]]

InitHighlight ==
  /\ pc = "start"
  /\ rawText = <<>>
  /\ \E n \in 0..MaxRenderLines : lines \in [1..n -> RenderLines]
  /\ prevLines = <<>>
  /\ sections = <<>>
  /\ line = <<>>
  /\ segments = <<>>
  /\ query \in RenderQueries
  /\ caseSensitive = FALSE
  /\ matches = <<>>
  /\ filterLines = <<>>
  /\ ViewerUnmounted

\* One render of App: allMatches and visibleLines of the same lines and query.
RenderDocument ==
  /\ pc = "start"
  /\ matches' = findMatches(lines, query, caseSensitive)
  /\ visibleLines' = [l \in 1..Len(lines) |-> renderLine(lines[l], query, searchMode)]
  /\ pc' = "rendered"
  /\ UNCHANGED <<rawText, lines, prevLines, sections, line, segments, query,
                 caseSensitive, filterLines, searchMode, activeMatchIndex,
                 activeFilterIndex, pendingAnchorRef, loading, errorMessage,
                 pendingLoads, phase, effectDeps, scrollTarget, lastEvent,
                 settings, storedSettings, settingsInitialized, documentTopic,
                 lastRequested, persistTimeout>>

NextHighlight == RenderDocument

SpecHighlight == InitHighlight /\ [][NextHighlight]_vars

\* The nodes of a rendered line, in order.
nodesOf(l) ==
  concat([k \in 1..Len(visibleLines[l].spans) |-> visibleLines[l].spans[k].nodes])

\* The offset in the source line at which the k-th node of line l begins.
nodeStart(l, k) ==
  visibleLines[l].indent
    + Len(concat([j \in 1..(k - 1) |-> nodesOf(l)[j].text]))

\* The character ranges marked in rendered line l (from 1), as offsets in the
\* source line.
markedRanges(l) ==
  {<<nodeStart(l, k), nodeStart(l, k) + Len(nodesOf(l)[k].text)>> :
     k \in {j \in 1..Len(nodesOf(l)) : nodesOf(l)[j].mark}}

\* The ranges of the matches on line l (from 1).
matchRanges(l) ==
  {<<matches[k].start, matches[k].end>> :
     k \in {j \in 1..Len(matches) : matches[j].lineIndex = l - 1}}

\* C27: in find mode the ranges marked in every rendered line, with the
\* stripped indentation added back, are exactly the ranges of the matches
\* on that line, also for a match that spans two token segments.
C27_HighlightsAreTheMatches ==
  (pc = "rendered" /\ searchMode = "find") =>
    \A l \in 1..Len(lines) : markedRanges(l) = matchRanges(l)

-----------------------------------------------------------------------------
(* Properties of loading in the viewer.                                    *)

\* A step of a handler or of a settled promise, before its effects.
isHandlerStep == phase = "idle" /\ phase' = "commit"

\* The topic has nothing but white space in it.
isBlankTopic(topic) == \A i \in 1..Len(topic) : topic[i] \in WhiteSpace

\* C28: a rejected load leaves the document, the query, both active indexes
\* and the pending anchor as they were, sets the error message and ends with
\* loading false; a blank topic sets the error message and neither starts a
\* load nor touches loading or the document.
C28_FailedLoadKeepsTheView ==
  [][/\ (isHandlerStep /\ lastEvent' = "loadFailed") =>
          /\ UNCHANGED <<rawText, lines, sections, documentTopic>>
          /\ UNCHANGED <<query, activeMatchIndex, activeFilterIndex,
                         pendingAnchorRef>>
          /\ errorMessage' # "none"
          /\ loading' = FALSE
     /\ (isHandlerStep /\ lastEvent' = "submit"
           /\ isBlankTopic(lastRequested')) =>
          /\ errorMessage' # "none"
          /\ UNCHANGED <<loading, pendingLoads>>
          /\ UNCHANGED <<rawText, lines, sections, documentTopic>>]_vars

\* A load was rejected while a document with a typed query was shown.
C28_Witness ==
  /\ pc = "viewer"
  /\ phase = "commit"
  /\ lastEvent = "loadFailed"
  /\ errorMessage = "loadFailed"
  /\ ~loading
  /\ lines # <<>>
  /\ trim(query) # <<>>

\* Some loadManPage call has not settled yet.
loadInFlight == Len(pendingLoads) >= 1

\* The last load to settle resolved and none is left in flight.
loadsSettled == pendingLoads = <<>> /\ lastEvent = "loadSucceeded"

\* C29: whatever the interleaving of the start-up load and the submitted
\* loads, loading is true while a loadManPage call is in flight, so at most
\* one call is in flight and the document left once the loads have settled
\* is the one of the topic requested last.
C29_LoadingCoversEveryLoadInFlight ==
  pc = "viewer" =>
    /\ loadInFlight => loading
    /\ Len(pendingLoads) <= 1
    /\ loadsSettled => documentTopic = trim(lastRequested)

-----------------------------------------------------------------------------
(* Properties of the search session.                                       *)

\* The step is a run of goToMatch in the given direction.
navigates(direction) ==
  /\ phase = "idle"
  /\ lastEvent' = (IF direction = 1 THEN "next" ELSE "previous")

navigationRule ==
  /\ navigates(1) /\ matches # <<>> /\ activeMatchIndex = Len(matches) - 1
       => activeMatchIndex' = 0
  /\ navigates(-1) /\ matches # <<>> /\ activeMatchIndex = 0
       => activeMatchIndex' = Len(matches) - 1
  /\ (navigates(1) \/ navigates(-1)) /\ matches = <<>>
       => UNCHANGED <<documentVars, searchVars, loadVars, searchMode,
                      activeMatchIndex, activeFilterIndex, pendingAnchorRef,
                      phase, effectDeps, scrollTarget>>

\* C18: whenever the match list is non-empty the active match index is at
\* least 0 and less than the number of matches, whatever query edits, mode
\* changes, navigation, filter-line selections, clears and loads came before;
\* next from the last match goes to the first, previous from the first goes to
\* the last, and navigation without matches changes nothing.
C18_ActiveMatchIndexInRange ==
  /\ [](matches # <<>> =>
          activeMatchIndex >= 0 /\ activeMatchIndex < Len(matches))
  /\ [][navigationRule]_vars

\* Next was pressed on the last of four matches and the first is active.
C18_Witness ==
  /\ pc = "viewer"
  /\ lastEvent = "next"
  /\ phase = "commit"
  /\ Len(matches) = 4
  /\ activeMatchIndex = 0

\* The step is a run of selectFilterLine, from a click or from Enter.
selectsFilterLine == phase = "idle" /\ lastEvent' = "selectFilterLine"

\* In the state after the step, the active match is the first match on the
\* line l.
firstMatchOnLineActive(l) ==
  /\ activeMatchIndex' \in 0..(Len(matches) - 1)
  /\ matches[activeMatchIndex' + 1].lineIndex = l
  /\ \A k \in 1..activeMatchIndex' : matches[k].lineIndex # l

selectionRule ==
  selectsFilterLine =>
    /\ searchMode = "filter"
    /\ searchMode' = "find"
    /\ query' = query
    /\ \E k \in 1..Len(filterLines) :
         /\ pendingAnchorRef' = filterLines[k].lineIndex
         /\ firstMatchOnLineActive(filterLines[k].lineIndex)

\* The effects that follow a selection scroll to the selected line and clear
\* the anchor.
selectionConsumed ==
  phase = "commit" /\ lastEvent = "selectFilterLine" =>
    /\ pendingAnchorRef # NoAnchor
    /\ pendingAnchorRef' = NoAnchor
    /\ scrollTarget' = pendingAnchorRef

\* A pending anchor is cleared only in a view that is not the filter view.
consumptionRule ==
  pendingAnchorRef # NoAnchor /\ pendingAnchorRef' = NoAnchor =>
    ~(searchMode' = "filter" /\ trim(query') # <<>>)

\* C19: selecting a filter line, by click or by Enter in filter mode, always
\* ends in find mode with the query unchanged, the first match on the
\* selected line active and the line recorded as the pending scroll anchor;
\* the anchor is scrolled to and cleared only when the view is no longer the
\* filter view of a non-empty query.
C19_FilterSelectionReturnsToFind ==
  [][selectionRule /\ selectionConsumed /\ consumptionRule]_vars

\* The line with two matches was selected, its first match is active and the
\* view has scrolled to it.
C19_Witness ==
  /\ pc = "viewer"
  /\ lastEvent = "selectFilterLine"
  /\ phase = "idle"
  /\ query = <<"a">>
  /\ searchMode = "find"
  /\ activeMatchIndex = 2
  /\ Len(matches) = 4
  /\ pendingAnchorRef = NoAnchor
  /\ scrollTarget = 2

====
